---- MODULE Spec2Model ----
(***************************************************************************)
(* A model of github-crawl: the range planner (partitioner.py), the rate   *)
(* limit coordinator (rate_limiter.py), the GraphQL client's retry loop    *)
(* (github_client.py), the batch upsert (db.py) and the producer/consumer  *)
(* pipeline of GitHubCrawler (crawler.py).                                 *)
(*                                                                         *)
(* Instants are integers counting microseconds, the resolution of Python's *)
(* datetime; a TimeRange is the record [start, end].                       *)
(***************************************************************************)
EXTENDS Integers, Sequences, FiniteSets, TLC

VARIABLES
    \* ---- RangePlanner.plan (partitioner.py) ----
    search_limit,     \* RangePlanner._search_limit
    initial_range,    \* plan()'s initial_range argument
    total_needed,     \* plan()'s total_needed argument
    plan_pc,          \* where plan() stands: "idle", "loop", "count_current",
                      \* "count_older", "count_newer", "done", "raised"
    stack,            \* the work stack: <<[time_range, known_count], ...>>, top last
    planned,          \* the list of RangePlans built so far
    plan_remaining,   \* plan()'s local `remaining`
    current,          \* plan()'s local `current`
    count,            \* plan()'s local `count`
    older,            \* plan()'s local `older`
    newer,            \* plan()'s local `newer`
    older_count,      \* plan()'s local `older_count`
    reported,         \* what the provider answered: {[time_range, count], ...}
    inflight,         \* execute() calls started and not yet returned or failed
    \* ---- RateLimiter (rate_limiter.py) ----
    rl_info,          \* RateLimiter._info: NoInfo or [id, cost, remaining]
    rl_estimated,     \* RateLimiter._estimated_cost, in units of 1/CostScale
    rl_next_id,       \* the identity the next RateLimitInfo object gets
    rl_pc,            \* per task, where it stands in acquire(): "out", "top",
                      \* "sleeping"
    rl_seen,          \* per task, acquire()'s local `info` (its identity)
    rl_granted,       \* history: what acquire() took out of the current snapshot
    rl_initial,       \* history: the remaining the last snapshot was recorded with
    rl_cleared,       \* history: reset() was called and record() not since
    \* ---- GitHubGraphQLClient.execute (github_client.py), one call ----
    max_retries,      \* GitHubSettings.max_retries
    initial_backoff,  \* GitHubSettings.initial_backoff, in tenths of a second
    max_backoff,      \* GitHubSettings.max_backoff, in tenths of a second
    ex_pc,            \* "idle", "posting", "sleeping", "returned", "raised"
    ex_attempt,       \* execute()'s local `attempt`
    ex_backoff,       \* execute()'s local `backoff`
    ex_sleep,         \* the argument of the last asyncio.sleep
    ex_sleeps,        \* history: asyncio.sleep calls made by execute()
    ex_error,         \* the exception raised: "" or "GraphQLClientError"
    ex_message,       \* the text the exception raised carries
    ex_requests,      \* history: HTTP requests sent (self._client.post calls)
    ex_only_retryable, \* history: every response so far was a retryable condition
    ex_only_transient, \* history: every response so far was a network error or a
                      \* 502/503/504
    ex_prev,          \* history: the response before the last one (header aside)
    ex_last,          \* history: the last response received
    \* ---- Database.upsert_repositories (db.py) ----
    batch_size,       \* DatabaseSettings.batch_size
    db_repositories,  \* committed github_repositories: node_id -> fetched_at or NoRow
    db_snapshots,     \* committed github_repository_snapshots: how many rows each
                      \* (repository_node_id, fetched_at) has
    tx_repositories,  \* github_repositories as the open transaction sees it
    tx_snapshots,     \* github_repository_snapshots as the open transaction sees it
    db_pc,            \* "idle", "repos", "snapshots", "commit"
    db_records,       \* upsert_repositories' argument `records`
    db_start,         \* _chunks' `start`
    db_result,        \* how the last call ended: "", "returned", "raised"
    \* ---- GitHubCrawler (crawler.py) ----
    max_concurrency,  \* GitHubSettings.max_concurrency
    page_size,        \* GitHubSettings.page_size
    crawl_pc,         \* where crawl() stands: "idle", "planning", "gather",
                      \* "await_consumer", "returned", "raised"
    prod,             \* per producer task (one per plan): [pc, remaining, pages,
                      \* first, put, cursor, afters, last_page];
                      \* pc is "loop", "acquire", "execute", "done", "failed",
                      \* "cancelled"
    semaphore,        \* free slots of self._semaphore
    seen_ids,         \* self._seen_ids
    queue,            \* the asyncio.Queue: records, Sentinel for None
    cons_pc,          \* _consume: "unborn", "get", "upsert", "final_upsert",
                      \* "done", "failed", "cancelled"
    buffer,           \* _consume's local `buffer`
    written,          \* _consume's local `written`
    latest_rate_limit, \* self._latest_rate_limit
    closed,           \* the event loop was closed: tasks left over were cancelled
    enqueued,         \* history: per node id, how many records were put on the queue
    skipped,          \* history: the node ids skipped as duplicates
    upsert_calls      \* history: the batches handed to upsert_repositories, in
                      \* the order of the calls

plan_vars == <<search_limit, initial_range, total_needed, plan_pc, stack, planned,
               plan_remaining, current, count, older, newer, older_count, reported>>

rl_vars == <<rl_info, rl_estimated, rl_next_id, rl_pc, rl_seen, rl_granted, rl_initial,
             rl_cleared>>

ex_vars == <<max_retries, initial_backoff, max_backoff, ex_pc, ex_attempt, ex_backoff,
             ex_sleep, ex_sleeps, ex_error, ex_message, ex_requests,
             ex_only_retryable, ex_only_transient, ex_prev, ex_last>>

db_vars == <<batch_size, db_repositories, db_snapshots, tx_repositories, tx_snapshots,
             db_pc, db_records, db_start, db_result>>

crawl_vars == <<max_concurrency, page_size, crawl_pc, prod, semaphore, seen_ids, queue,
                cons_pc, buffer, written, latest_rate_limit, closed, enqueued, skipped,
                upsert_calls>>

vars == <<plan_vars, inflight, rl_vars, ex_vars, db_vars, crawl_vars>>

\* what the planner leaves alone
not_plan_vars == <<rl_vars, ex_vars, db_vars, crawl_vars>>

\* what the rate limiter leaves alone
not_rl_vars == <<plan_vars, inflight, ex_vars, db_vars, crawl_vars>>

\* what one execute() call leaves alone
not_ex_vars == <<plan_vars, rl_vars, db_vars, crawl_vars>>

\* what the database leaves alone
not_db_vars == <<plan_vars, inflight, rl_vars, ex_vars, crawl_vars>>

----------------------------------------------------------------------------
(* Bounds of the model *)

\* counts the provider may report are 0..MaxCount
MaxCount == 3
\* targets N are 0..MaxNeeded
MaxNeeded == 3
\* search limits are 1..MaxSearchLimit
MaxSearchLimit == 2
\* tasks calling the rate limit coordinator
NumTasks == 2
\* record() calls in one run
MaxRecords == 3
\* costs a recorded snapshot carries are 0..MaxCost
MaxCost == 3
\* remainings a recorded snapshot carries are 0..MaxRemaining
MaxRemaining == 4
\* max_retries settings are 1..MaxMaxRetries
MaxMaxRetries == 3
\* one upsert_repositories call is given at most MaxRecordsLen records
MaxRecordsLen == 2
\* batch_size settings are 1..MaxBatchSize
MaxBatchSize == 2
\* max_concurrency settings are 1..MaxConcurrency
MaxConcurrency == 2
\* a search page carries at most MaxPageLen nodes
MaxPageLen == 2
\* the provider ends a search after at most MaxPages pages
MaxPages == 2
\* split() is called on ranges of 1..MaxSplitDuration microseconds (and on the
\* initial ranges of the planner)
MaxSplitDuration == 40

\* durations (microseconds) of the initial ranges explored: unsplittable ones
\* (below two seconds), ranges that split once and ranges that split twice,
\* with even and odd microsecond counts
InitialDurations == {1000000, 1043527, 2000000, 3000001, 4000000, 4000001}
\* start instants of the initial ranges explored
InitialStarts == {0, 358998}

----------------------------------------------------------------------------
(* TimeRange (partitioner.py) *)

\* None, for an optional integer
None == -1

Min(a, b) == IF a <= b THEN a ELSE b
Max(a, b) == IF a >= b THEN a ELSE b

TimeRange(s, e) == [start |-> s, end |-> e]

NoRange == TimeRange(0, 0)

\* timedelta(seconds=2), in microseconds
TwoSeconds == 2000000

\* TimeRange.duration
duration(r) == r.end - r.start

\* a range taken for splittable from one second on
can_split_from_one_second(r) == duration(r) >= 1000000

\* TimeRange.can_split
can_split(r) == duration(r) >= TwoSeconds

\* timedelta / 2: the quotient in microseconds, a tie rounded to the even one
HalfDelta(delta) ==
    LET q == delta \div 2
    IN  IF delta % 2 = 1 /\ q % 2 = 1 THEN q + 1 ELSE q

\* the midpoint taken a third of the way
midpoint_at_third(r) == r.start + (r.end - r.start) \div 3

\* the midpoint TimeRange.split computes
midpoint(r) == r.start + HalfDelta(r.end - r.start)

\* TimeRange.split raises ValueError
SplitRaises(r) == midpoint(r) <= r.start \/ midpoint(r) >= r.end

\* a split whose first half is the whole range
split_keeps_whole(r) == <<TimeRange(r.start, r.end), TimeRange(midpoint(r), r.end)>>

\* TimeRange.split: (first, second)
split(r) == <<TimeRange(r.start, midpoint(r)), TimeRange(midpoint(r), r.end)>>

\* the durations (microseconds) of the ranges split() is called on
SplitDurations == (1 .. MaxSplitDuration) \cup InitialDurations

\* `older, newer = current.split()` on its own: split() returns its halves or
\* raises ValueError
SplitCall ==
    /\ plan_pc = "split"
    /\ IF SplitRaises(current)
       THEN /\ plan_pc' = "split_raised"
            /\ UNCHANGED <<older, newer>>
       ELSE /\ plan_pc' = "split_returned"
            /\ older' = split(current)[1]
            /\ newer' = split(current)[2]
    /\ UNCHANGED <<search_limit, initial_range, total_needed, stack, planned,
                   plan_remaining, current, count, older_count, reported, inflight>>
    /\ UNCHANGED not_plan_vars

SplitNext == SplitCall

----------------------------------------------------------------------------
(* RangePlanner.plan (partitioner.py) *)

\* a plan built with its two counts swapped
RangePlanSwapped(r, take, cnt) ==
    [time_range |-> r, requested_results |-> cnt, available_results |-> take]

\* RangePlan(time_range=current, requested_results=take, available_results=count)
RangePlan(r, take, cnt) ==
    [time_range |-> r, requested_results |-> take, available_results |-> cnt]

\* a stack entry that drops the count it is given
StackEntryWithoutCount(r, known) == [time_range |-> r, known_count |-> None]

\* plan(): an entry (time_range, known_count) of the stack
StackEntry(r, known) == [time_range |-> r, known_count |-> known]

Report(r, c) == [time_range |-> r, count |-> c]

\* the provider's answers to one repositoryCount query
Counts == 0 .. MaxCount

\* Emit with `take = count`: the min with `remaining` forgotten
EmitWholeCount(cur, cnt) ==
    /\ planned' = Append(planned, RangePlan(cur, cnt, cnt))
    /\ plan_remaining' = plan_remaining - cnt
    /\ plan_pc' = "loop"

\* plan(): planned.append(RangePlan(current, take, count)); remaining -= take
Emit(cur, cnt) ==
    LET take == Min(cnt, plan_remaining)
    IN  /\ planned' = Append(planned, RangePlan(cur, take, cnt))
        /\ plan_remaining' = plan_remaining - take
        /\ plan_pc' = "loop"

\* plan(): the body of the loop from `if count == 0` to the next await, for the
\* range cur popped with count cnt; infl is the number of calls in flight then
Process(cur, cnt, infl) ==
    /\ current' = cur
    /\ count' = IF cnt > search_limit /\ ~can_split(cur) THEN search_limit ELSE cnt
    /\ IF cnt = 0
       THEN /\ plan_pc' = "loop"
            /\ inflight' = infl
            /\ UNCHANGED <<planned, plan_remaining, older, newer>>
       ELSE IF cnt > search_limit /\ can_split(cur)
       THEN IF SplitRaises(cur)
            THEN /\ plan_pc' = "raised"
                 /\ inflight' = infl
                 /\ UNCHANGED <<planned, plan_remaining, older, newer>>
            ELSE /\ older' = split(cur)[1]
                 /\ newer' = split(cur)[2]
                 /\ plan_pc' = "count_older"
                 /\ inflight' = infl + 1
                 /\ UNCHANGED <<planned, plan_remaining>>
       ELSE /\ inflight' = infl
            /\ Emit(cur, IF cnt > search_limit THEN search_limit ELSE cnt)
            /\ UNCHANGED <<older, newer>>

\* plan() is called: the stack holds the initial range, no count known
PlanStart ==
    /\ plan_pc = "idle"
    /\ plan_pc' = "loop"
    /\ stack' = <<StackEntry(initial_range, None)>>
    /\ planned' = <<>>
    /\ plan_remaining' = total_needed
    /\ UNCHANGED <<search_limit, initial_range, total_needed, current, count, older,
                   newer, older_count, reported, inflight>>
    /\ UNCHANGED not_plan_vars

\* one turn of `while stack and remaining > 0` for an entry whose count is
\* known: pop it and run the loop body
PlanPopKnown ==
    /\ plan_pc = "loop"
    /\ stack # <<>>
    /\ plan_remaining > 0
    /\ stack[Len(stack)].known_count # None
    /\ stack' = SubSeq(stack, 1, Len(stack) - 1)
    /\ Process(stack[Len(stack)].time_range, stack[Len(stack)].known_count, inflight)
    /\ UNCHANGED <<search_limit, initial_range, total_needed, older_count, reported>>
    /\ UNCHANGED not_plan_vars

\* one turn of the loop for an entry without a count: pop it and send the
\* count query (_count awaits execute())
PlanPopUnknown ==
    /\ plan_pc = "loop"
    /\ stack # <<>>
    /\ plan_remaining > 0
    /\ stack[Len(stack)].known_count = None
    /\ stack' = SubSeq(stack, 1, Len(stack) - 1)
    /\ current' = stack[Len(stack)].time_range
    /\ plan_pc' = "count_current"
    /\ inflight' = inflight + 1
    /\ UNCHANGED <<search_limit, initial_range, total_needed, planned, plan_remaining,
                   count, older, newer, older_count, reported>>
    /\ UNCHANGED not_plan_vars

\* the count of `current` arrives; the loop body runs
PlanCountCurrent ==
    /\ plan_pc = "count_current"
    /\ \E c \in Counts :
          /\ reported' = reported \cup {Report(current, c)}
          /\ Process(current, c, inflight - 1)
    /\ UNCHANGED <<search_limit, initial_range, total_needed, stack, older_count>>
    /\ UNCHANGED not_plan_vars

\* older_count = await self._count(older); the query for `newer` is sent
PlanCountOlder ==
    /\ plan_pc = "count_older"
    /\ \E c \in Counts :
          /\ reported' = reported \cup {Report(older, c)}
          /\ older_count' = c
    /\ plan_pc' = "count_newer"
    /\ UNCHANGED <<search_limit, initial_range, total_needed, stack, planned,
                   plan_remaining, current, count, older, newer, inflight>>
    /\ UNCHANGED not_plan_vars

\* max_available without the min with the search limit
MaxAvailableUnclamped == count

\* plan(): max_available = min(count, self._search_limit)
MaxAvailable == Min(count, search_limit)

\* AfterSplit whose guard plans the parent and descends into its halves too
AfterSplitPlansParentAndHalves(newer_count) ==
    /\ stack' = Append(Append(stack, StackEntry(older, older_count)),
                       StackEntry(newer, newer_count))
    /\ IF older_count + newer_count < MaxAvailable
       THEN /\ count' = MaxAvailable
            /\ Emit(current, MaxAvailable)
       ELSE /\ plan_pc' = "loop"
            /\ UNCHANGED <<count, planned, plan_remaining>>

\* AfterSplit without the guard: the halves are always pushed
AfterSplitAlwaysDescends(newer_count) ==
    /\ stack' = Append(Append(stack, StackEntry(older, older_count)),
                       StackEntry(newer, newer_count))
    /\ plan_pc' = "loop"
    /\ UNCHANGED <<count, planned, plan_remaining>>

\* plan(): from `newer_count = await self._count(newer)` to the end of the turn
AfterSplit(newer_count) ==
    LET max_available == MaxAvailable
    IN  IF older_count + newer_count < max_available
        THEN /\ count' = max_available
             /\ Emit(current, max_available)
             /\ stack' = stack
        ELSE /\ stack' = Append(Append(stack, StackEntry(older, older_count)),
                                StackEntry(newer, newer_count))
             /\ plan_pc' = "loop"
             /\ UNCHANGED <<count, planned, plan_remaining>>

\* the count of `newer` arrives
PlanCountNewer ==
    /\ plan_pc = "count_newer"
    /\ \E c \in Counts :
          /\ reported' = reported \cup {Report(newer, c)}
          /\ AfterSplit(c)
    /\ inflight' = inflight - 1
    /\ UNCHANGED <<search_limit, initial_range, total_needed, current, older, newer,
                   older_count>>
    /\ UNCHANGED not_plan_vars

\* execute() raises inside _count: plan() raises
PlanCountFails ==
    /\ plan_pc \in {"count_current", "count_older", "count_newer"}
    /\ plan_pc' = "raised"
    /\ inflight' = inflight - 1
    /\ UNCHANGED <<search_limit, initial_range, total_needed, stack, planned,
                   plan_remaining, current, count, older, newer, older_count, reported>>
    /\ UNCHANGED not_plan_vars

\* the loop ends (`stack` empty or `remaining` used up): return planned
PlanReturn ==
    /\ plan_pc = "loop"
    /\ ~(stack # <<>> /\ plan_remaining > 0)
    /\ plan_pc' = "done"
    /\ UNCHANGED <<search_limit, initial_range, total_needed, stack, planned,
                   plan_remaining, current, count, older, newer, older_count, reported,
                   inflight>>
    /\ UNCHANGED not_plan_vars

PlanNext ==
    \/ PlanStart
    \/ PlanPopKnown
    \/ PlanPopUnknown
    \/ PlanCountCurrent
    \/ PlanCountOlder
    \/ PlanCountNewer
    \/ PlanCountFails
    \/ PlanReturn

PlanLocalsInit ==
    /\ plan_pc = "idle"
    /\ stack = <<>>
    /\ planned = <<>>
    /\ plan_remaining = 0
    /\ current = NoRange
    /\ count = 0
    /\ older = NoRange
    /\ newer = NoRange
    /\ older_count = 0
    /\ reported = {}

----------------------------------------------------------------------------
(* RateLimiter (rate_limiter.py) *)

\* the tasks that call the coordinator
Tasks == 1 .. NumTasks

\* _estimated_cost is kept as a multiple of 1/CostScale: exact for MaxRecords
\* halvings of the moving average
CostScale == 2 ^ MaxRecords

\* the snapshots record() may be given
RecordCosts == 0 .. MaxCost
RecordRemaining == 0 .. MaxRemaining

\* the (cost, remaining) pairs record() may be given: the small ones and (30, 40)
RecordInputs == (RecordCosts \X RecordRemaining) \cup {<<30, 40>>}

\* self._info is None
NoInfo == [id |-> 0, cost |-> 0, remaining |-> 0]

\* a RateLimitInfo object; id is the object's identity (`is`), reset_at only
\* sets how long a sleep lasts and is left out
RateLimitInfo(i, c, r) == [id |-> i, cost |-> c, remaining |-> r]

\* the estimate rounded down instead of up
EstimatedCostFloor == Max(1, rl_estimated \div CostScale)

\* acquire(): estimated_cost = max(1, ceil(self._estimated_cost))
EstimatedCost == Max(1, (rl_estimated + CostScale - 1) \div CostScale)

\* the budget test passing whenever anything remains
HasBudgetIfPositive(info, cost) == info.remaining > 0

\* acquire(): info.remaining >= estimated_cost
HasBudget(info, cost) == info.remaining >= cost

\* the budget test and the decrement done apart: a grant whose decrement is
\* lost to another caller's
RlTryLostUpdate(t) ==
    /\ rl_pc[t] = "top"
    /\ IF rl_info = NoInfo
       THEN /\ rl_pc' = [rl_pc EXCEPT ![t] = "out"]
            /\ rl_seen' = [rl_seen EXCEPT ![t] = 0]
            /\ UNCHANGED <<rl_info, rl_granted>>
       ELSE IF HasBudget(rl_info, EstimatedCost)
       THEN /\ rl_info' = [rl_info EXCEPT !.remaining =
                               IF \E u \in Tasks \ {t} : rl_pc[u] = "top"
                               THEN @ ELSE @ - EstimatedCost]
            /\ rl_granted' = rl_granted + EstimatedCost
            /\ rl_pc' = [rl_pc EXCEPT ![t] = "out"]
            /\ rl_seen' = [rl_seen EXCEPT ![t] = 0]
       ELSE /\ rl_seen' = [rl_seen EXCEPT ![t] = rl_info.id]
            /\ rl_pc' = [rl_pc EXCEPT ![t] = "sleeping"]
            /\ UNCHANGED <<rl_info, rl_granted>>
    /\ UNCHANGED <<rl_estimated, rl_next_id, rl_cleared, rl_initial>>

\* acquire(): the first locked block of one turn of `while True`, by task t
RlTry(t) ==
    /\ rl_pc[t] = "top"
    /\ IF rl_info = NoInfo
       THEN /\ rl_pc' = [rl_pc EXCEPT ![t] = "out"]
            /\ rl_seen' = [rl_seen EXCEPT ![t] = 0]
            /\ UNCHANGED <<rl_info, rl_granted>>
       ELSE IF HasBudget(rl_info, EstimatedCost)
       THEN /\ rl_info' = [rl_info EXCEPT !.remaining = @ - EstimatedCost]
            /\ rl_granted' = rl_granted + EstimatedCost
            /\ rl_pc' = [rl_pc EXCEPT ![t] = "out"]
            /\ rl_seen' = [rl_seen EXCEPT ![t] = 0]
       ELSE /\ rl_seen' = [rl_seen EXCEPT ![t] = rl_info.id]
            /\ rl_pc' = [rl_pc EXCEPT ![t] = "sleeping"]
            /\ UNCHANGED <<rl_info, rl_granted>>
    /\ UNCHANGED <<rl_estimated, rl_next_id, rl_cleared, rl_initial>>

\* a sleep that ends without touching the snapshot
RlWakeKeepsSnapshot(t) ==
    /\ rl_pc[t] = "sleeping"
    /\ rl_pc' = [rl_pc EXCEPT ![t] = "top"]
    /\ UNCHANGED <<rl_info, rl_estimated, rl_next_id, rl_seen, rl_granted, rl_initial, rl_cleared>>

\* a sleep after which whatever snapshot is stored is cleared
RlWakeClearsAny(t) ==
    /\ rl_pc[t] = "sleeping"
    /\ rl_info' = NoInfo
    /\ rl_pc' = [rl_pc EXCEPT ![t] = "top"]
    /\ UNCHANGED <<rl_estimated, rl_next_id, rl_seen, rl_granted, rl_initial, rl_cleared>>

\* acquire(): the sleep ends; the second locked block clears the snapshot if it
\* is still the object read before sleeping
RlWake(t) ==
    /\ rl_pc[t] = "sleeping"
    /\ rl_info' = IF rl_info # NoInfo /\ rl_info.id = rl_seen[t] THEN NoInfo ELSE rl_info
    /\ rl_pc' = [rl_pc EXCEPT ![t] = "top"]
    /\ UNCHANGED <<rl_estimated, rl_next_id, rl_seen, rl_granted, rl_initial, rl_cleared>>

\* a record() that stores the object it is given: what is stored has the
\* identity of the caller's object
StoredCallersObject(i, c, r) == RateLimitInfo(0, c, r)

\* record(): RateLimitInfo(cost=info.cost, remaining=info.remaining, ...), a
\* new object (identity i) with the caller's values; objects made by callers
\* have identity 0
Stored(i, c, r) == RateLimitInfo(i, c, r)

\* record(info): install a fresh copy; move the estimate when cost > 0
RlRecord(c, r) ==
    /\ rl_info' = Stored(rl_next_id, c, r)
    /\ rl_next_id' = rl_next_id + 1
    /\ rl_granted' = 0
    /\ rl_initial' = r
    /\ rl_cleared' = FALSE
    /\ rl_estimated' = IF c > 0
                       THEN Max(CostScale, (rl_estimated + c * CostScale) \div 2)
                       ELSE rl_estimated
    /\ UNCHANGED <<rl_pc, rl_seen>>

\* a reset that only discards a snapshot with nothing left
RlResetIfExhausted ==
    /\ rl_info' = IF rl_info # NoInfo /\ rl_info.remaining > 0 THEN rl_info ELSE NoInfo
    /\ rl_cleared' = TRUE
    /\ UNCHANGED <<rl_estimated, rl_next_id, rl_pc, rl_seen, rl_granted, rl_initial>>

\* reset(): self._info = None
RlReset ==
    /\ rl_info' = NoInfo
    /\ rl_cleared' = TRUE
    /\ UNCHANGED <<rl_estimated, rl_next_id, rl_pc, rl_seen, rl_granted, rl_initial>>

\* remaining(): the stored remaining, or None
RlRemaining == IF rl_info = NoInfo THEN None ELSE rl_info.remaining

\* a task calls acquire()
RateCall ==
    /\ \E t \in Tasks :
          /\ rl_pc[t] = "out"
          /\ rl_pc' = [rl_pc EXCEPT ![t] = "top"]
    /\ UNCHANGED <<rl_info, rl_estimated, rl_next_id, rl_seen, rl_granted, rl_initial, rl_cleared>>
    /\ UNCHANGED not_rl_vars

RateTry ==
    /\ \E t \in Tasks : RlTry(t)
    /\ UNCHANGED not_rl_vars

RateWake ==
    /\ \E t \in Tasks : RlWake(t)
    /\ UNCHANGED not_rl_vars

\* a task calls record() with a snapshot whose remaining is not negative
RateRecord ==
    /\ rl_next_id <= MaxRecords
    /\ \E in \in RecordInputs : RlRecord(in[1], in[2])
    /\ UNCHANGED not_rl_vars

RateReset ==
    /\ RlReset
    /\ UNCHANGED not_rl_vars

RateNext ==
    \/ RateCall
    \/ RateTry
    \/ RateWake
    \/ RateRecord
    \/ RateReset

\* RateLimiter.__init__
RlInit ==
    /\ rl_info = NoInfo
    /\ rl_estimated = CostScale
    /\ rl_next_id = 1
    /\ rl_granted = 0
    /\ rl_initial = 0
    /\ rl_cleared = FALSE
    /\ rl_pc = [t \in Tasks |-> "out"]
    /\ rl_seen = [t \in Tasks |-> 0]

----------------------------------------------------------------------------
(* GitHubGraphQLClient.execute (github_client.py) *)

\* settings explored, in tenths of a second: initial_backoff >= 0.1,
\* max_backoff >= 1.0, the initial one below, at and above the maximum
InitialBackoffs == {1, 10, 400}
MaxBackoffs == {10, 300}

\* Retry-After headers and retryAfter fields, in tenths of a second (or None)
RetryAfters == {None, 0, 20, 500}

\* payload["message"] as a sequence of words; <<>> is no message (absent or
\* empty: falsy in `if message and ...`)
NoMessage == <<>>
Messages ==
    {NoMessage,
     <<"Bad credentials">>,
     <<"You have exceeded a secondary", "rate limit">>,
     <<"API", "Rate Limit", "exceeded">>}

\* str.lower() on the words used
Lower(word) == IF word = "Rate Limit" THEN "rate limit" ELSE word

\* the containment test that compares the message as it came
MentionsRateLimitCaseSensitive(message) ==
    \E i \in 1 .. Len(message) : message[i] = "rate limit"

\* execute(): "rate limit" in str(message).lower()
MentionsRateLimit(message) ==
    \E i \in 1 .. Len(message) : Lower(message[i]) = "rate limit"

\* the HTTP statuses told apart: 502 stands for 502, 503 and 504, 403 for
\* itself, 200 for every other status
Statuses == {200, 403, 502}

\* what one HTTP attempt may end in: httpx.RequestError, or a response with
\*   status       its status code
\*   message      payload["message"]
\*   errors       payload["errors"]: "none" (absent or empty), "retryable"
\*                (_is_retryable(errors)) or "fatal"
\*   has_data     payload["data"] is not None
\*   retry_after  the Retry-After header where the message decides, the
\*                errors' retryAfter where the errors decide
Responses ==
    [kind : {"request_error"}, status : {0}, message : {NoMessage},
     errors : {"none"}, has_data : {FALSE}, retry_after : {None}]
    \cup [kind : {"http"}, status : {502}, message : {NoMessage},
          errors : {"none"}, has_data : {FALSE}, retry_after : {None}]
    \cup [kind : {"http"}, status : Statuses \ {502}, message : Messages,
          errors : {"none", "retryable", "fatal"}, has_data : BOOLEAN,
          retry_after : RetryAfters]

\* no response received yet
NoResponse ==
    [kind |-> "", status |-> 0, message |-> NoMessage, errors |-> "none",
     has_data |-> FALSE, retry_after |-> None]

\* execute(): `message and response.status_code == 403`
IsForbiddenMessage(resp) ==
    resp.kind = "http" /\ resp.status = 403 /\ resp.message # NoMessage

\* execute(): the payload is read down to `errors` and errors is not empty
HasErrors(resp) ==
    /\ resp.kind = "http"
    /\ resp.status # 502
    /\ ~IsForbiddenMessage(resp)
    /\ resp.errors # "none"

\* httpx.RequestError, or a status in {502, 503, 504}
IsTransient(resp) ==
    \/ resp.kind = "request_error"
    \/ resp.kind = "http" /\ resp.status = 502

\* the retryable conditions as execute() tells them: a network error,
\* 502/503/504, a 403 rate-limit message, retryable GraphQL errors
IsRetryableCondition(resp) ==
    \/ resp.kind = "request_error"
    \/ resp.kind = "http" /\ resp.status = 502
    \/ IsForbiddenMessage(resp) /\ MentionsRateLimit(resp.message)
    \/ HasErrors(resp) /\ resp.errors = "retryable"

\* errors taken for retryable whatever they are
ErrorsRetryableAlways(resp) == TRUE

\* _is_retryable(errors)
ErrorsRetryable(resp) == resp.errors = "retryable"

\* attempts remain, counting the one just made as still available
AttemptsRemainOffByOne == ex_attempt <= max_retries

\* execute(): attempt < max_retries (lines 95, 105), not attempt >= max_retries
\* (lines 73, 81)
AttemptsRemain == ex_attempt < max_retries

\* `x or backoff` for an optional float: None and 0.0 are falsy
OrBackoff(x) == IF x = None \/ x = 0 THEN ex_backoff ELSE x

\* execute(): sleep d, then go round the loop with backoff b
Retry(d, b) ==
    /\ ex_pc' = "sleeping"
    /\ ex_sleep' = d
    /\ ex_sleeps' = ex_sleeps + 1
    /\ ex_backoff' = b
    /\ UNCHANGED <<ex_error, ex_message, inflight>>

\* a non-rate-limit 403 message taken for one more retryable condition
RaiseOrRetry(message) ==
    IF AttemptsRemain
    THEN Retry(ex_backoff, Min(ex_backoff * 2, max_backoff))
    ELSE /\ ex_pc' = "raised"
         /\ ex_error' = "GraphQLClientError"
         /\ ex_message' = message
         /\ inflight' = inflight - 1
         /\ UNCHANGED <<ex_sleep, ex_sleeps, ex_backoff>>

\* execute(): raise GraphQLClientError(message)
Raise(message) ==
    /\ ex_pc' = "raised"
    /\ ex_error' = "GraphQLClientError"
    /\ ex_message' = message
    /\ inflight' = inflight - 1
    /\ UNCHANGED <<ex_sleep, ex_sleeps, ex_backoff>>

\* execute() is called: backoff = initial_backoff, first attempt posted
ExecCall ==
    /\ ex_pc = "idle"
    /\ ex_pc' = "posting"
    /\ ex_attempt' = 1
    /\ ex_backoff' = initial_backoff
    /\ ex_requests' = ex_requests + 1
    /\ inflight' = inflight + 1
    /\ UNCHANGED <<max_retries, initial_backoff, max_backoff, ex_sleep, ex_sleeps,
                   ex_error, ex_message, ex_only_retryable, ex_only_transient,
                   ex_prev, ex_last>>
    /\ UNCHANGED not_ex_vars

\* execute(): what follows `await self._client.post(...)` for the outcome resp
Handle(resp) ==
    IF resp.kind = "request_error"
    THEN IF AttemptsRemain
         THEN Retry(ex_backoff, Min(ex_backoff * 2, max_backoff))
         ELSE Raise(<<"Maximum retries exceeded">>)
    ELSE IF resp.status = 502
    THEN IF AttemptsRemain
         THEN Retry(ex_backoff, Min(ex_backoff * 2, max_backoff))
         ELSE Raise(<<"GitHub GraphQL service unavailable">>)
    ELSE IF IsForbiddenMessage(resp)
    THEN IF MentionsRateLimit(resp.message) /\ AttemptsRemain
         THEN Retry(Min(OrBackoff(resp.retry_after), max_backoff),
                    Min(Max(ex_backoff * 2, OrBackoff(resp.retry_after)), max_backoff))
         ELSE Raise(resp.message)
    ELSE IF resp.errors # "none"
    THEN IF ErrorsRetryable(resp) /\ AttemptsRemain
         THEN Retry(Min(OrBackoff(resp.retry_after), max_backoff),
                    Min(ex_backoff * 2, max_backoff))
         ELSE Raise(<<"errors">>)
    ELSE IF ~resp.has_data
    THEN Raise(<<"Response payload missing 'data'">>)
    ELSE /\ ex_pc' = "returned"
         /\ inflight' = inflight - 1
         /\ UNCHANGED <<ex_sleep, ex_sleeps, ex_backoff, ex_error, ex_message>>

\* one attempt ends
ExecResponse ==
    /\ ex_pc = "posting"
    /\ \E resp \in Responses :
          /\ Handle(resp)
          /\ ex_only_retryable' = (ex_only_retryable /\ IsRetryableCondition(resp))
          /\ ex_only_transient' = (ex_only_transient /\ IsTransient(resp))
          /\ ex_prev' = [ex_last EXCEPT !.retry_after = None]
          /\ ex_last' = resp
    /\ UNCHANGED <<max_retries, initial_backoff, max_backoff, ex_attempt, ex_requests>>
    /\ UNCHANGED not_ex_vars

\* the sleep ends: `continue`, attempt += 1, the next request is posted
ExecWake ==
    /\ ex_pc = "sleeping"
    /\ ex_pc' = "posting"
    /\ ex_attempt' = ex_attempt + 1
    /\ ex_requests' = ex_requests + 1
    /\ UNCHANGED <<max_retries, initial_backoff, max_backoff, ex_backoff, ex_sleep,
                   ex_sleeps, ex_error, ex_message, ex_only_retryable,
                   ex_only_transient, ex_prev, ex_last, inflight>>
    /\ UNCHANGED not_ex_vars

ExecNext ==
    \/ ExecCall
    \/ ExecResponse
    \/ ExecWake

\* no execute() call under way
ExLocalsInit ==
    /\ ex_pc = "idle"
    /\ ex_attempt = 0
    /\ ex_backoff = 0
    /\ ex_sleep = 0
    /\ ex_sleeps = 0
    /\ ex_error = ""
    /\ ex_message = NoMessage
    /\ ex_requests = 0
    /\ ex_only_retryable = TRUE
    /\ ex_only_transient = TRUE
    /\ ex_prev = NoResponse
    /\ ex_last = NoResponse

\* the default settings, where the retry loop is not what is explored
ExQuietInit ==
    /\ max_retries = 1
    /\ initial_backoff = 10
    /\ max_backoff = 300
    /\ ExLocalsInit

----------------------------------------------------------------------------
(* Database.upsert_repositories (db.py) *)

\* the repositories of the provider
NodeIds == {"R_a", "R_b"}

\* the fetched_at instants of the records: an earlier and a later one
FetchTimes == {1, 2}

\* a RepositoryRecord: its key and its fetched_at (the other columns are copied
\* along and decide nothing)
RepositoryRecord(n, f) == [node_id |-> n, fetched_at |-> f]

Records == [node_id : NodeIds, fetched_at : FetchTimes]

\* no row for a node_id in github_repositories
NoRow == 0

SnapshotKeys == NodeIds \X FetchTimes

\* all sequences over S of length at most n
RECURSIVE SeqsUpTo(_, _)
SeqsUpTo(S, n) ==
    IF n = 0 THEN {<<>>}
    ELSE LET shorter == SeqsUpTo(S, n - 1)
         IN  shorter \cup {Append(q, x) : q \in shorter, x \in S}

\* insert_sql for one row: INSERT ... ON CONFLICT (node_id) DO UPDATE SET
\* ... fetched_at = EXCLUDED.fetched_at
UpsertRow(table, rec) == [table EXCEPT ![rec.node_id] = rec.fetched_at]

\* conn.executemany(insert_sql, repo_rows)
RECURSIVE UpsertRows(_, _)
UpsertRows(table, rows) ==
    IF rows = <<>> THEN table
    ELSE UpsertRows(UpsertRow(table, rows[1]), Tail(rows))

\* the snapshot insert without its conflict clause: a plain INSERT
InsertSnapshotAlways(table, rec) ==
    [table EXCEPT ![<<rec.node_id, rec.fetched_at>>] = @ + 1]

\* snapshot_sql for one row: INSERT ... ON CONFLICT (repository_node_id,
\* fetched_at) DO NOTHING
InsertSnapshot(table, rec) ==
    IF table[<<rec.node_id, rec.fetched_at>>] > 0
    THEN table
    ELSE [table EXCEPT ![<<rec.node_id, rec.fetched_at>>] = 1]

\* conn.executemany(snapshot_sql, snapshot_rows)
RECURSIVE InsertSnapshots(_, _)
InsertSnapshots(table, rows) ==
    IF rows = <<>> THEN table
    ELSE InsertSnapshots(InsertSnapshot(table, rows[1]), Tail(rows))

\* _chunks: items[start : start + size]
Chunk(items, start, size) == SubSeq(items, start + 1, Min(start + size, Len(items)))

\* upsert_repositories(records) up to its first statement: nothing to do for
\* no records, else a transaction is opened
DbBegin(records) ==
    /\ db_pc = "idle"
    /\ db_records' = records
    /\ db_start' = 0
    /\ tx_repositories' = db_repositories
    /\ tx_snapshots' = db_snapshots
    /\ IF records = <<>>
       THEN db_pc' = "idle" /\ db_result' = "returned"
       ELSE db_pc' = "repos" /\ db_result' = ""
    /\ UNCHANGED <<batch_size, db_repositories, db_snapshots>>

\* the upsert of a chunk written straight to the table, outside any transaction
ExecReposAutocommit ==
    /\ db_pc = "repos"
    /\ tx_repositories' =
          UpsertRows(tx_repositories, Chunk(db_records, db_start, batch_size))
    /\ db_repositories' = tx_repositories'
    /\ db_pc' = "snapshots"
    /\ UNCHANGED <<batch_size, db_snapshots, tx_snapshots, db_records,
                   db_start, db_result>>

\* await conn.executemany(insert_sql, repo_rows) for the current chunk
ExecRepos ==
    /\ db_pc = "repos"
    /\ tx_repositories' =
          UpsertRows(tx_repositories, Chunk(db_records, db_start, batch_size))
    /\ db_pc' = "snapshots"
    /\ UNCHANGED <<batch_size, db_repositories, db_snapshots, tx_snapshots, db_records,
                   db_start, db_result>>

\* await conn.executemany(snapshot_sql, snapshot_rows) for the current chunk,
\* then the next chunk or the end of the transaction block
ExecSnapshots ==
    /\ db_pc = "snapshots"
    /\ tx_snapshots' =
          InsertSnapshots(tx_snapshots, Chunk(db_records, db_start, batch_size))
    /\ db_start' = db_start + batch_size
    /\ db_pc' = IF db_start + batch_size < Len(db_records) THEN "repos" ELSE "commit"
    /\ UNCHANGED <<batch_size, db_repositories, db_snapshots, tx_repositories,
                   db_records, db_result>>

\* the transaction block exits normally: COMMIT
Commit ==
    /\ db_pc = "commit"
    /\ db_repositories' = tx_repositories
    /\ db_snapshots' = tx_snapshots
    /\ db_pc' = "idle"
    /\ db_result' = "returned"
    /\ UNCHANGED <<batch_size, tx_repositories, tx_snapshots, db_records, db_start>>

\* a statement (or the commit) fails: the transaction block exits with the
\* exception, ROLLBACK, upsert_repositories raises
Rollback ==
    /\ db_pc \in {"repos", "snapshots", "commit"}
    /\ tx_repositories' = db_repositories
    /\ tx_snapshots' = db_snapshots
    /\ db_pc' = "idle"
    /\ db_result' = "raised"
    /\ UNCHANGED <<batch_size, db_repositories, db_snapshots, db_records, db_start>>

\* upsert_repositories is called with some records
DbCall ==
    /\ \E records \in SeqsUpTo(Records, MaxRecordsLen) : DbBegin(records)
    /\ UNCHANGED not_db_vars

DbExecRepos ==
    /\ ExecRepos
    /\ UNCHANGED not_db_vars

DbExecSnapshots ==
    /\ ExecSnapshots
    /\ UNCHANGED not_db_vars

DbCommit ==
    /\ Commit
    /\ UNCHANGED not_db_vars

DbRollback ==
    /\ Rollback
    /\ UNCHANGED not_db_vars

DbNext ==
    \/ DbCall
    \/ DbExecRepos
    \/ DbExecSnapshots
    \/ DbCommit
    \/ DbRollback

\* empty tables, no call under way
DbTablesInit ==
    /\ db_repositories = [n \in NodeIds |-> NoRow]
    /\ db_snapshots = [k \in SnapshotKeys |-> 0]
    /\ tx_repositories = [n \in NodeIds |-> NoRow]
    /\ tx_snapshots = [k \in SnapshotKeys |-> 0]
    /\ db_pc = "idle"
    /\ db_records = <<>>
    /\ db_start = 0
    /\ db_result = ""

DbQuietInit ==
    /\ batch_size = 1
    /\ DbTablesInit

----------------------------------------------------------------------------
(* GitHubCrawler: producers (crawler.py) *)

\* the producer tasks: one per plan
Producers == DOMAIN prod

\* queue.put(None)
Sentinel == [node_id |-> "", fetched_at |-> NoRow]

\* the instant datetime.now() gives a page (one run is shorter than the clock's
\* grain here: dedup makes every node_id of a run unique whatever the instant)
PageFetchedAt == 1

\* the rateLimit a search response may carry: none, or cost 1 with 1 left (the
\* next acquire() is granted, the one after it sleeps)
SearchRateLimits == {NoInfo, RateLimitInfo(0, 1, 1)}

\* the search payloads the provider may answer with
SearchResponses ==
    [nodes : SeqsUpTo(NodeIds, MaxPageLen), has_next : BOOLEAN,
     rate_limit : SearchRateLimits]

\* a producer that aims at all the results its range has
TargetAvailable(plan) == plan.available_results

\* _produce: remaining = plan.requested_results
Target(plan) == plan.requested_results

\* a producer task: `first` is _produce's local page_size (0 before the first
\* page), `cursor` its local cursor, `put` the history of how many records it
\* has put on the queue, `afters` the history of the `after` values it has
\* sent, `last_page` the history of what the last page it received was
Producer(pc, remaining) ==
    [pc |-> pc, remaining |-> remaining, pages |-> 0, first |-> 0, put |-> 0,
     cursor |-> None, afters |-> <<>>, last_page |-> "none"]

\* pageInfo.endCursor of the page served for `after`: pages are numbered from
\* 1, the cursor of page k is k, an empty page has none
EndCursor(after, nodes) ==
    IF nodes = <<>> THEN None
    ELSE IF after = None THEN 1 ELSE after + 1

\* what a page is: "empty" (no nodes), "final" (nodes, hasNextPage false) or
\* "more" (nodes, hasNextPage true)
PageKind(nodes, has_next) ==
    IF nodes = <<>> THEN "empty" ELSE IF has_next THEN "more" ELSE "final"

\* the cursor left as it was
NextCursorStale(cursor, end_cursor) == cursor

\* _produce: cursor = page_info.get("endCursor")
NextCursor(cursor, end_cursor) == end_cursor

\* the page size asked for whatever is still needed
PageSizeUncapped(remaining) == page_size

\* _produce: page_size = min(self._config.github.page_size, remaining)
PageSize(remaining) == Min(page_size, remaining)

\* the gate letting a request through whatever the semaphore's value
SlotFreeAlways == TRUE

\* `async with self._semaphore` enters without waiting
SlotFree == semaphore > 0

\* the seen test answering "new" for every node
IsNewAlways(node_id, seen) == TRUE

\* _mark_seen: node_id not in self._seen_ids
IsNew(node_id, seen) == node_id \notin seen

\* how many times node id n occurs in the records of sequence put
RECURSIVE Occurrences(_, _)
Occurrences(n, put) ==
    IF put = <<>> THEN 0
    ELSE (IF Head(put).node_id = n THEN 1 ELSE 0) + Occurrences(n, Tail(put))

\* _produce: `for node in nodes`, from the state [remaining, seen, put, dup] on.
\* The loop does not suspend: _seen_lock is only held across synchronous code
\* and the queue is unbounded.
RECURSIVE ProduceNodes(_, _)
ProduceNodes(nodes, st) ==
    IF nodes = <<>> \/ st.remaining <= 0 THEN st
    ELSE IF IsNew(Head(nodes), st.seen)
    THEN ProduceNodes(Tail(nodes),
             [remaining |-> st.remaining - 1,
              seen |-> st.seen \cup {Head(nodes)},
              put |-> Append(st.put, RepositoryRecord(Head(nodes), PageFetchedAt)),
              dup |-> st.dup])
    ELSE ProduceNodes(Tail(nodes), [st EXCEPT !.dup = @ \cup {Head(nodes)}])

\* _produce: `while remaining > 0` is tested; when it holds _fetch_page is
\* called and enters acquire()
ProduceLoop(p) ==
    /\ prod[p].pc = "loop"
    /\ IF prod[p].remaining > 0
       THEN /\ prod' = [prod EXCEPT ![p].pc = "acquire",
                                    ![p].first = PageSize(prod[p].remaining),
                                    ![p].afters = Append(@, prod[p].cursor)]
            /\ rl_pc' = [rl_pc EXCEPT ![p] = "top"]
       ELSE /\ prod' = [prod EXCEPT ![p].pc = "done"]
            /\ UNCHANGED rl_pc
    /\ UNCHANGED <<rl_info, rl_estimated, rl_next_id, rl_seen, rl_granted, rl_initial, rl_cleared>>
    /\ UNCHANGED <<plan_vars, inflight, ex_vars, db_vars>>
    /\ UNCHANGED <<max_concurrency, page_size, crawl_pc, semaphore, seen_ids, queue,
                   cons_pc, buffer, written, latest_rate_limit, closed, enqueued,
                   skipped, upsert_calls>>

\* _fetch_page inside acquire(): one locked block
ProduceAcquireTry(p) ==
    /\ prod[p].pc = "acquire"
    /\ RlTry(p)
    /\ UNCHANGED not_rl_vars

\* _fetch_page inside acquire(): a sleep ends
ProduceAcquireWake(p) ==
    /\ prod[p].pc = "acquire"
    /\ RlWake(p)
    /\ UNCHANGED not_rl_vars

\* _fetch_page: acquire() has returned; a slot of the semaphore is taken and
\* execute() starts
ProduceExecute(p) ==
    /\ prod[p].pc = "acquire"
    /\ rl_pc[p] = "out"
    /\ SlotFree
    /\ semaphore' = semaphore - 1
    /\ inflight' = inflight + 1
    /\ prod' = [prod EXCEPT ![p].pc = "execute"]
    /\ UNCHANGED <<plan_vars, rl_vars, ex_vars, db_vars>>
    /\ UNCHANGED <<max_concurrency, page_size, crawl_pc, seen_ids, queue, cons_pc,
                   buffer, written, latest_rate_limit, closed, enqueued, skipped,
                   upsert_calls>>

\* _produce after a page: `if not nodes: break`, `if not hasNextPage: break`,
\* else the next turn of the while loop
AfterPage(nodes, has_next) ==
    IF nodes # <<>> /\ has_next THEN "loop" ELSE "done"

\* execute() returns resp: the slot is released, the snapshot recorded, and
\* _produce puts the page's new nodes into the queue
ProduceResponse(p) ==
    /\ prod[p].pc = "execute"
    /\ \E resp \in SearchResponses :
          /\ resp.has_next => prod[p].pages + 1 < MaxPages
          /\ resp.rate_limit # NoInfo => rl_next_id <= MaxRecords
          /\ IF resp.rate_limit # NoInfo
             THEN /\ RlRecord(resp.rate_limit.cost, resp.rate_limit.remaining)
                  /\ latest_rate_limit' = resp.rate_limit
             ELSE UNCHANGED <<rl_vars, latest_rate_limit>>
          /\ LET st == ProduceNodes(resp.nodes,
                           [remaining |-> prod[p].remaining, seen |-> seen_ids,
                            put |-> <<>>, dup |-> {}])
             IN  /\ seen_ids' = st.seen
                 /\ queue' = queue \o st.put
                 /\ enqueued' = [n \in NodeIds |-> enqueued[n] + Occurrences(n, st.put)]
                 /\ skipped' = skipped \cup st.dup
                 /\ prod' = [prod EXCEPT ![p].pages = @ + 1,
                                         ![p].remaining = st.remaining,
                                         ![p].put = @ + Len(st.put),
                                         ![p].cursor =
                                             NextCursor(@, EndCursor(
                                                 prod[p].afters[Len(prod[p].afters)],
                                                 resp.nodes)),
                                         ![p].last_page =
                                             PageKind(resp.nodes, resp.has_next),
                                         ![p].pc = AfterPage(resp.nodes, resp.has_next)]
    /\ semaphore' = semaphore + 1
    /\ inflight' = inflight - 1
    /\ UNCHANGED <<plan_vars, ex_vars, db_vars>>
    /\ UNCHANGED <<max_concurrency, page_size, crawl_pc, cons_pc, buffer, written,
                   closed, upsert_calls>>

\* a failure that leaves the semaphore's slot taken
ProduceFailsKeepsSlot(p) ==
    /\ prod[p].pc = "execute"
    /\ inflight' = inflight - 1
    /\ RlReset
    /\ prod' = [prod EXCEPT ![p].pc = "failed"]
    /\ UNCHANGED <<plan_vars, ex_vars, db_vars>>
    /\ UNCHANGED <<max_concurrency, page_size, crawl_pc, semaphore, seen_ids, queue,
                   cons_pc, buffer, written, latest_rate_limit, closed, enqueued,
                   skipped, upsert_calls>>

\* execute() raises: the slot is released, reset() is called, the exception
\* leaves _fetch_page and _produce
ProduceFails(p) ==
    /\ prod[p].pc = "execute"
    /\ semaphore' = semaphore + 1
    /\ inflight' = inflight - 1
    /\ RlReset
    /\ prod' = [prod EXCEPT ![p].pc = "failed"]
    /\ UNCHANGED <<plan_vars, ex_vars, db_vars>>
    /\ UNCHANGED <<max_concurrency, page_size, crawl_pc, seen_ids, queue, cons_pc,
                   buffer, written, latest_rate_limit, closed, enqueued, skipped,
                   upsert_calls>>

----------------------------------------------------------------------------
(* GitHubCrawler: the writer and crawl() (crawler.py) *)

\* the flush that waits for one record more than a batch
BatchFullStrict(filled) == Len(filled) > batch_size

\* _consume: len(buffer) >= self._config.database.batch_size
BatchFull(filled) == Len(filled) >= batch_size

\* _consume: `item = await queue.get()` got an item; the sentinel ends the
\* loop and flushes what is buffered, a record is buffered and flushed when the
\* buffer is full
ConsumeGet ==
    /\ cons_pc = "get"
    /\ queue # <<>>
    /\ queue' = Tail(queue)
    /\ LET item == Head(queue)
           filled == Append(buffer, item)
       IN  IF item = Sentinel
           THEN IF buffer # <<>>
                THEN /\ DbBegin(buffer)
                     /\ upsert_calls' = Append(upsert_calls, buffer)
                     /\ cons_pc' = "final_upsert"
                     /\ UNCHANGED buffer
                ELSE /\ cons_pc' = "done"
                     /\ UNCHANGED <<buffer, upsert_calls, db_vars>>
           ELSE /\ buffer' = filled
                /\ IF BatchFull(filled)
                   THEN /\ DbBegin(filled)
                        /\ upsert_calls' = Append(upsert_calls, filled)
                        /\ cons_pc' = "upsert"
                   ELSE /\ cons_pc' = "get"
                        /\ UNCHANGED <<upsert_calls, db_vars>>
    /\ UNCHANGED <<plan_vars, inflight, rl_vars, ex_vars>>
    /\ UNCHANGED <<max_concurrency, page_size, crawl_pc, prod, semaphore, seen_ids,
                   written, latest_rate_limit, closed, enqueued, skipped>>

\* _consume: upsert_repositories returned; written += len(buffer), and inside
\* the loop buffer.clear()
ConsumeUpsertReturned ==
    /\ cons_pc \in {"upsert", "final_upsert"}
    /\ db_pc = "idle"
    /\ db_result = "returned"
    /\ written' = written + Len(buffer)
    /\ buffer' = IF cons_pc = "upsert" THEN <<>> ELSE buffer
    /\ cons_pc' = IF cons_pc = "upsert" THEN "get" ELSE "done"
    /\ UNCHANGED <<plan_vars, inflight, rl_vars, ex_vars, db_vars>>
    /\ UNCHANGED <<max_concurrency, page_size, crawl_pc, prod, semaphore, seen_ids,
                   queue, latest_rate_limit, closed, enqueued, skipped, upsert_calls>>

\* the writer dropping the batch whose upsert raised and carrying on
ConsumeUpsertRaisedSwallowed ==
    /\ cons_pc \in {"upsert", "final_upsert"}
    /\ db_pc = "idle"
    /\ db_result = "raised"
    /\ buffer' = <<>>
    /\ cons_pc' = IF cons_pc = "upsert" THEN "get" ELSE "done"
    /\ UNCHANGED <<plan_vars, inflight, rl_vars, ex_vars, db_vars>>
    /\ UNCHANGED <<max_concurrency, page_size, crawl_pc, prod, semaphore, seen_ids,
                   queue, written, latest_rate_limit, closed, enqueued, skipped,
                   upsert_calls>>

\* _consume: upsert_repositories raised; the writer task ends with the exception
ConsumeUpsertRaised ==
    /\ cons_pc \in {"upsert", "final_upsert"}
    /\ db_pc = "idle"
    /\ db_result = "raised"
    /\ cons_pc' = "failed"
    /\ UNCHANGED <<plan_vars, inflight, rl_vars, ex_vars, db_vars>>
    /\ UNCHANGED <<max_concurrency, page_size, crawl_pc, prod, semaphore, seen_ids,
                   queue, buffer, written, latest_rate_limit, closed, enqueued, skipped,
                   upsert_calls>>

\* crawl(): plan() returned; one producer task per plan and the writer task are
\* created, crawl() awaits gather(*producers). plan()'s frame is gone.
CrawlSpawn ==
    /\ crawl_pc = "planning"
    /\ plan_pc = "done"
    /\ prod' = [p \in 1 .. Len(planned) |->
                   Producer("loop", Target(planned[p]))]
    /\ cons_pc' = "get"
    /\ crawl_pc' = "gather"
    /\ stack' = <<>>
    /\ current' = NoRange
    /\ count' = 0
    /\ older' = NoRange
    /\ newer' = NoRange
    /\ older_count' = 0
    /\ reported' = {}
    /\ UNCHANGED <<search_limit, initial_range, total_needed, plan_pc, planned,
                   plan_remaining>>
    /\ UNCHANGED <<inflight, rl_vars, ex_vars, db_vars>>
    /\ UNCHANGED <<max_concurrency, page_size, semaphore, seen_ids, queue, buffer,
                   written, latest_rate_limit, closed, enqueued, skipped, upsert_calls>>

\* crawl(): plan() raised; so does crawl()
CrawlPlanRaised ==
    /\ crawl_pc = "planning"
    /\ plan_pc = "raised"
    /\ crawl_pc' = "raised"
    /\ UNCHANGED <<plan_vars, inflight, rl_vars, ex_vars, db_vars>>
    /\ UNCHANGED <<max_concurrency, page_size, prod, semaphore, seen_ids, queue,
                   cons_pc, buffer, written, latest_rate_limit, closed, enqueued,
                   skipped, upsert_calls>>

\* the sentinel put ahead of what the queue holds
PutSentinelFirst(q) == <<Sentinel>> \o q

\* await queue.put(None): the queue is first in, first out
PutSentinel(q) == Append(q, Sentinel)

\* crawl(): gather() returns once every producer has returned; the sentinel is
\* put and crawl() awaits the writer
CrawlGatherReturns ==
    /\ crawl_pc = "gather"
    /\ \A p \in Producers : prod[p].pc = "done"
    /\ queue' = PutSentinel(queue)
    /\ crawl_pc' = "await_consumer"
    /\ UNCHANGED <<plan_vars, inflight, rl_vars, ex_vars, db_vars>>
    /\ UNCHANGED <<max_concurrency, page_size, prod, semaphore, seen_ids, cons_pc,
                   buffer, written, latest_rate_limit, closed, enqueued, skipped,
                   upsert_calls>>

\* crawl(): gather() (return_exceptions left False) raises the exception of a
\* producer that raised, at once; the other tasks are left running
CrawlGatherRaises ==
    /\ crawl_pc = "gather"
    /\ \E p \in Producers : prod[p].pc = "failed"
    /\ crawl_pc' = "raised"
    /\ UNCHANGED <<plan_vars, inflight, rl_vars, ex_vars, db_vars>>
    /\ UNCHANGED <<max_concurrency, page_size, prod, semaphore, seen_ids, queue,
                   cons_pc, buffer, written, latest_rate_limit, closed, enqueued,
                   skipped, upsert_calls>>

\* crawl(): `written = await consumer` returns; crawl() returns its CrawlResult
\* the object a reference names, as it is now: the coordinator's object is
\* the only one assigned to after its construction (`info.remaining -= ...`),
\* and a reference to that very object sees the assignment
ObjectNow(ref) == IF rl_info # NoInfo /\ rl_info.id = ref.id THEN rl_info ELSE ref

\* CrawlResult.rate_limit_remaining, as crawl() computes it
rate_limit_remaining ==
    IF latest_rate_limit = NoInfo THEN None ELSE ObjectNow(latest_rate_limit).remaining

CrawlReturns ==
    /\ crawl_pc = "await_consumer"
    /\ cons_pc = "done"
    /\ crawl_pc' = "returned"
    /\ UNCHANGED <<plan_vars, inflight, rl_vars, ex_vars, db_vars>>
    /\ UNCHANGED <<max_concurrency, page_size, prod, semaphore, seen_ids, queue,
                   cons_pc, buffer, written, latest_rate_limit, closed, enqueued,
                   skipped, upsert_calls>>

\* crawl(): `await consumer` raises the writer's exception
CrawlConsumerRaised ==
    /\ crawl_pc = "await_consumer"
    /\ cons_pc = "failed"
    /\ crawl_pc' = "raised"
    /\ UNCHANGED <<plan_vars, inflight, rl_vars, ex_vars, db_vars>>
    /\ UNCHANGED <<max_concurrency, page_size, prod, semaphore, seen_ids, queue,
                   cons_pc, buffer, written, latest_rate_limit, closed, enqueued,
                   skipped, upsert_calls>>

\* a task the closing event loop cancels, if it has not finished
Cancelled(pc) == IF pc \in {"done", "failed"} THEN pc ELSE "cancelled"

\* cli.crawl: crawl() is over, asyncio.run() cancels the tasks still pending
\* and closes the loop; an open transaction is rolled back
LoopClose ==
    /\ crawl_pc \in {"returned", "raised"}
    /\ ~closed
    /\ closed' = TRUE
    /\ prod' = [p \in Producers |-> [prod[p] EXCEPT !.pc = Cancelled(@)]]
    /\ cons_pc' = Cancelled(cons_pc)
    /\ inflight' = inflight - Cardinality({p \in Producers : prod[p].pc = "execute"})
    /\ semaphore' = semaphore + Cardinality({p \in Producers : prod[p].pc = "execute"})
    /\ rl_pc' = [t \in Tasks |-> "out"]
    /\ IF db_pc # "idle"
       THEN Rollback
       ELSE UNCHANGED db_vars
    /\ UNCHANGED <<rl_info, rl_estimated, rl_next_id, rl_seen, rl_granted, rl_initial, rl_cleared>>
    /\ UNCHANGED <<plan_vars, ex_vars>>
    /\ UNCHANGED <<max_concurrency, page_size, crawl_pc, seen_ids, queue, buffer,
                   written, latest_rate_limit, enqueued, skipped, upsert_calls>>

CrawlProduceLoop == \E p \in Producers : ProduceLoop(p)
CrawlProduceAcquireTry == \E p \in Producers : ProduceAcquireTry(p)
CrawlProduceAcquireWake == \E p \in Producers : ProduceAcquireWake(p)
CrawlProduceExecute == \E p \in Producers : ProduceExecute(p)
CrawlProduceResponse == \E p \in Producers : ProduceResponse(p)
CrawlProduceFails == \E p \in Producers : ProduceFails(p)

CrawlNext ==
    \/ PlanNext
    \/ CrawlSpawn
    \/ CrawlPlanRaised
    \/ CrawlProduceLoop
    \/ CrawlProduceAcquireTry
    \/ CrawlProduceAcquireWake
    \/ CrawlProduceExecute
    \/ CrawlProduceResponse
    \/ CrawlProduceFails
    \/ ConsumeGet
    \/ DbExecRepos
    \/ DbExecSnapshots
    \/ DbCommit
    \/ DbRollback
    \/ ConsumeUpsertReturned
    \/ ConsumeUpsertRaised
    \/ CrawlGatherReturns
    \/ CrawlGatherRaises
    \/ CrawlReturns
    \/ CrawlConsumerRaised
    \/ LoopClose

\* GitHubCrawler.__init__, before crawl() has created its tasks
CrawlLocalsInit ==
    /\ prod = <<>>
    /\ semaphore = max_concurrency
    /\ seen_ids = {}
    /\ queue = <<>>
    /\ cons_pc = "unborn"
    /\ buffer = <<>>
    /\ written = 0
    /\ latest_rate_limit = NoInfo
    /\ closed = FALSE
    /\ enqueued = [n \in NodeIds |-> 0]
    /\ skipped = {}
    /\ upsert_calls = <<>>

\* no crawl, where the crawler is not what is explored
CrawlQuietInit ==
    /\ max_concurrency = 1
    /\ page_size = 1
    /\ crawl_pc = "idle"
    /\ CrawlLocalsInit

\* the initial range [range_start, now) of the crawls explored: it splits once
CrawlInitialRange == TimeRange(0, TwoSeconds)

----------------------------------------------------------------------------
(* Specifications *)

\* the planner alone, for every initial range, target and search limit explored
InitPlan ==
    /\ search_limit \in 1 .. MaxSearchLimit
    /\ \E s \in InitialStarts, d \in InitialDurations :
          initial_range = TimeRange(s, s + d)
    /\ total_needed \in 0 .. MaxNeeded
    /\ PlanLocalsInit
    /\ inflight = 0
    /\ RlInit
    /\ ExQuietInit
    /\ DbQuietInit
    /\ CrawlQuietInit

SpecPlan == InitPlan /\ [][PlanNext]_vars

\* the planner with its awaits answered: a count query sent gets its reply or
\* its error, and the loop takes its next turn
SpecPlanFair == SpecPlan /\ WF_vars(PlanNext)

\* one split() call, for every range explored
InitSplit ==
    /\ search_limit = 1
    /\ initial_range = NoRange
    /\ total_needed = 0
    /\ plan_pc = "split"
    /\ \E s \in InitialStarts, d \in SplitDurations : current = TimeRange(s, s + d)
    /\ stack = <<>>
    /\ planned = <<>>
    /\ plan_remaining = 0
    /\ count = 0
    /\ older = NoRange
    /\ newer = NoRange
    /\ older_count = 0
    /\ reported = {}
    /\ inflight = 0
    /\ RlInit
    /\ ExQuietInit
    /\ DbQuietInit
    /\ CrawlQuietInit

SpecSplit == InitSplit /\ [][SplitNext]_vars

\* the coordinator alone, called by NumTasks tasks
InitRate ==
    /\ RlInit
    /\ search_limit = 1
    /\ initial_range = NoRange
    /\ total_needed = 0
    /\ PlanLocalsInit
    /\ inflight = 0
    /\ ExQuietInit
    /\ DbQuietInit
    /\ CrawlQuietInit

SpecRate == InitRate /\ [][RateNext]_vars

\* the planner's inputs when the planner is not what is explored
PlanQuietInit ==
    /\ search_limit = 1
    /\ initial_range = NoRange
    /\ total_needed = 0
    /\ PlanLocalsInit

\* one execute() call, for every setting explored
InitExec ==
    /\ max_retries \in 1 .. MaxMaxRetries
    /\ initial_backoff \in InitialBackoffs
    /\ max_backoff \in MaxBackoffs
    /\ ExLocalsInit
    /\ PlanQuietInit
    /\ RlInit
    /\ DbQuietInit
    /\ CrawlQuietInit
    /\ inflight = 0

SpecExec == InitExec /\ [][ExecNext]_vars

\* upsert_repositories alone, called again and again on tables that start empty
InitDb ==
    /\ batch_size \in 1 .. MaxBatchSize
    /\ DbTablesInit
    /\ CrawlQuietInit
    /\ PlanQuietInit
    /\ RlInit
    /\ ExQuietInit
    /\ inflight = 0

SpecDb == InitDb /\ [][DbNext]_vars

\* one crawl() from its call to the closing of the event loop, for every
\* setting explored
InitCrawl ==
    /\ max_concurrency \in 1 .. MaxConcurrency
    /\ page_size = MaxPageLen
    /\ batch_size \in 1 .. MaxBatchSize
    /\ crawl_pc = "planning"
    /\ CrawlLocalsInit
    /\ search_limit \in 1 .. MaxSearchLimit
    /\ initial_range = CrawlInitialRange
    /\ total_needed \in 1 .. MaxNeeded
    /\ PlanLocalsInit
    /\ RlInit
    /\ ExQuietInit
    /\ DbTablesInit
    /\ inflight = 0

SpecCrawl == InitCrawl /\ [][CrawlNext]_vars

\* what runs while crawl() awaits the writer: the writer task, the database it
\* calls and crawl()'s own resumption
WriterStep ==
    \/ ConsumeGet
    \/ DbExecRepos
    \/ DbExecSnapshots
    \/ DbCommit
    \/ DbRollback
    \/ ConsumeUpsertReturned
    \/ ConsumeUpsertRaised
    \/ CrawlReturns
    \/ CrawlConsumerRaised

\* what the producer tasks do: the event loop runs them, sleeps end and every
\* request is answered or fails
ProducerStep ==
    \/ CrawlProduceLoop
    \/ CrawlProduceAcquireTry
    \/ CrawlProduceAcquireWake
    \/ CrawlProduceExecute
    \/ CrawlProduceResponse
    \/ CrawlProduceFails

\* crawl() resumes when gather() is over
GatherStep ==
    \/ CrawlGatherReturns
    \/ CrawlGatherRaises

\* a crawl on an event loop that runs a task that is ready, with a provider and
\* a database that answer every request (with a result or an error)
SpecCrawlFair ==
    /\ SpecCrawl
    /\ WF_vars(WriterStep)
    /\ WF_vars(ProducerStep)
    /\ WF_vars(GatherStep)

----------------------------------------------------------------------------
(* Properties of the plans *)

RECURSIVE SumRequested(_)
SumRequested(plans) ==
    IF plans = <<>> THEN 0
    ELSE plans[1].requested_results + SumRequested(Tail(plans))

\* the count the provider reported for range r (0 when r was never counted)
ReportedCount(r) ==
    IF \E rep \in reported : rep.time_range = r
    THEN (CHOOSE rep \in reported : rep.time_range = r).count
    ELSE 0

Counted(r) == \E rep \in reported : rep.time_range = r

\* every range that was split reported the sum of what its halves reported
CountsAdditive ==
    \A rep \in reported :
        (can_split(rep.time_range) /\ Counted(split(rep.time_range)[1])
                                   /\ Counted(split(rep.time_range)[2]))
        => rep.count = ReportedCount(split(rep.time_range)[1])
                       + ReportedCount(split(rep.time_range)[2])

\* no range too short to split reported more than the search limit
NoUnsplittableOversize ==
    \A rep \in reported : ~can_split(rep.time_range) => rep.count <= search_limit

\* C3 as stated: when plan() returns, the requested_results of the plans sum to
\* min(N, count of the initial range), whatever counts were reported
C3_SumIsMinOfTargetAndInitialCount ==
    plan_pc = "done" =>
        SumRequested(planned) = Min(total_needed, ReportedCount(initial_range))

\* C3 amended: when plan() returns, the requested_results of the plans sum to
\* min(N, count of the initial range) provided the reported counts are additive
\* over every split and no unsplittable range reported more than search_limit;
\* whatever the counts, the sum never exceeds N
C3_SumIsMinWhenCountsAdditive ==
    plan_pc = "done" =>
        /\ SumRequested(planned) <= total_needed
        /\ (CountsAdditive /\ NoUnsplittableOversize) =>
               SumRequested(planned) = Min(total_needed, ReportedCount(initial_range))

\* C3 witness: plan() returned after splitting, with additive counts, several
\* plans and a count of the initial range above the target
C3_Witness ==
    /\ plan_pc = "done"
    /\ CountsAdditive /\ NoUnsplittableOversize
    /\ Len(planned) >= 2
    /\ Counted(split(initial_range)[1])
    /\ ReportedCount(initial_range) > total_needed
    /\ SumRequested(planned) = total_needed

\* C4: every plan built has available_results <= search_limit, whatever the
\* provider reports
C4_AvailableWithinLimit ==
    \A i \in 1 .. Len(planned) : planned[i].available_results <= search_limit

\* C4 witness: plans exist for an unsplittable range that reported more than the
\* limit, and for a parent planned by the guard on inconsistent halves
C4_Witness ==
    /\ plan_pc = "done"
    /\ \E i \in 1 .. Len(planned) :
          /\ ~can_split(planned[i].time_range)
          /\ ReportedCount(planned[i].time_range) > search_limit
    /\ \E i \in 1 .. Len(planned) :
          /\ Counted(planned[i].time_range)
          /\ Counted(split(planned[i].time_range)[1])
          /\ ReportedCount(planned[i].time_range) > search_limit

Disjoint(a, b) == a.end <= b.start \/ b.end <= a.start

Inside(a, b) == b.start <= a.start /\ a.end <= b.end

\* C5: the planned TimeRanges are non-empty half-open intervals inside the
\* initial range and pairwise disjoint (so none is planned with a sub-range)
C5_PlansDisjointInsideInitial ==
    /\ \A i \in 1 .. Len(planned) :
          /\ planned[i].time_range.start < planned[i].time_range.end
          /\ Inside(planned[i].time_range, initial_range)
    /\ \A i, j \in 1 .. Len(planned) :
          i < j => Disjoint(planned[i].time_range, planned[j].time_range)

\* C5 witness: plan() returned three or more plans, one of them a parent
\* planned by the guard after its halves were counted
C5_Witness ==
    /\ plan_pc = "done"
    /\ Len(planned) >= 3
    /\ \E i \in 1 .. Len(planned) : Counted(split(planned[i].time_range)[1])

\* C8: the coordinator's stored remaining is never negative
C8_RemainingNeverNegative ==
    rl_info # NoInfo => rl_info.remaining >= 0

\* C8 witness: acquire() has taken budget out of the snapshot, what is left is
\* positive but below the estimated cost, and a caller sleeps on it
C8_Witness ==
    /\ rl_info # NoInfo
    /\ rl_granted > 0
    /\ 0 < rl_info.remaining /\ rl_info.remaining < EstimatedCost
    /\ \E t \in Tasks : rl_pc[t] = "sleeping" /\ rl_seen[t] = rl_info.id

\* C10: one execute() call sends at most max_retries HTTP requests; once
\* max_retries attempts have all ended in a retryable condition the call has
\* raised GraphQLClientError, and it does not end before that
C10_RetriesBounded ==
    /\ ex_requests <= max_retries
    /\ (ex_only_retryable /\ ex_pc # "posting" /\ ex_requests = max_retries)
           => (ex_pc = "raised" /\ ex_error = "GraphQLClientError")
    /\ (ex_only_retryable /\ ex_pc \in {"returned", "raised"})
           => ex_requests = max_retries

\* C10 witness: with max_retries of at least three, every attempt ended in a
\* retryable condition and the call has raised
C10_Witness ==
    /\ max_retries >= 3
    /\ ex_only_retryable
    /\ ex_requests = max_retries
    /\ ex_pc = "raised"

\* the committed snapshot rows with the key of node n's committed state row
SnapshotRowsOf(n) == db_snapshots[<<n, db_repositories[n]>>]

\* C9: in the committed tables, every row of github_repositories has exactly
\* one row of github_repository_snapshots with its (node_id, fetched_at), at
\* every moment: a batch's two inserts become visible together or not at all
C9_StateRowHasOneSnapshot ==
    \A n \in NodeIds : db_repositories[n] # NoRow => SnapshotRowsOf(n) = 1

\* C9 witness: a batch was committed that overwrote a state row with a
\* fetched_at whose snapshot existed already, next to an older snapshot
C9_Witness ==
    /\ db_result = "returned"
    /\ Len(db_records) >= 2
    /\ \E n \in NodeIds :
          /\ db_repositories[n] = 1
          /\ db_snapshots[<<n, 1>>] = 1
          /\ db_snapshots[<<n, 2>>] = 1


----------------------------------------------------------------------------
(* Properties of the crawl *)

\* some batch handed to upsert_repositories holds a record of node id n
HandedToUpsert(n) ==
    \E k \in 1 .. Len(upsert_calls) :
        \E i \in 1 .. Len(upsert_calls[k]) : upsert_calls[k][i].node_id = n

\* C1 as stated: when the run is over after a producer raised (and the planner
\* and the database did not fail), only that producer was stopped: every other
\* producer ran to completion, the writer finished and crawl() returned
C1_ProducerFailureIsolated ==
    (closed /\ plan_pc = "done" /\ cons_pc # "failed"
            /\ \E p \in Producers : prod[p].pc = "failed")
    => /\ crawl_pc = "returned"
       /\ \A p \in Producers : prod[p].pc \in {"done", "failed"}
       /\ cons_pc = "done"

\* C2 as stated: when the run is over (and the database did not fail), every
\* record a producer put on the queue was handed to upsert_repositories
C2_EnqueuedRecordsReachUpsert ==
    (closed /\ cons_pc # "failed") =>
        \A n \in NodeIds : enqueued[n] > 0 => HandedToUpsert(n)

\* C6: no two records put on the queue within one run share a node_id, under
\* every interleaving of the producers
C6_NoTwoEnqueuedShareNodeId ==
    \A n \in NodeIds : enqueued[n] <= 1

\* C6 witness: two producers have each read a page, a node came back a second
\* time and was skipped, and it is on record as enqueued once
C6_Witness ==
    /\ Len(prod) = 2
    /\ \A p \in Producers : prod[p].pages >= 1
    /\ \E n \in skipped : enqueued[n] = 1

\* C7: at every moment of a crawl the number of execute() calls in flight is at
\* most max_concurrency, planning included
C7_InFlightWithinMaxConcurrency ==
    crawl_pc # "idle" => inflight <= max_concurrency

\* C7 witness: every slot is taken by a request in flight while another
\* producer, past acquire(), waits for one
C7_Witness ==
    /\ inflight = max_concurrency
    /\ \E p \in Producers : prod[p].pc = "execute"
    /\ \E p \in Producers : prod[p].pc = "acquire" /\ rl_pc[p] = "out"

----------------------------------------------------------------------------
(* Properties of execute() *)

\* the message holds "rate limit" in whatever case
ContainsRateLimitAnyCase(message) ==
    \E i \in 1 .. Len(message) : message[i] \in {"rate limit", "Rate Limit"}

\* an HTTP 403 whose message contains "rate limit"
IsRateLimit403(resp) ==
    resp.kind = "http" /\ resp.status = 403 /\ ContainsRateLimitAnyCase(resp.message)

\* an HTTP 403 with a message that does not contain "rate limit"
IsOther403(resp) ==
    /\ resp.kind = "http"
    /\ resp.status = 403
    /\ resp.message # NoMessage
    /\ ~ContainsRateLimitAnyCase(resp.message)

\* a valid response: status 200, no message, no errors, data present
IsValidResponse(resp) ==
    /\ resp.kind = "http"
    /\ resp.status = 200
    /\ resp.message = NoMessage
    /\ resp.errors = "none"
    /\ resp.has_data

\* the last response received has been handled (it is that of attempt
\* ex_attempt)
Handled == ex_pc \in {"sleeping", "returned", "raised"}

\* C11: a 403 whose message contains "rate limit" (in any case) is retried
\* while attempts remain; when the attempt after it gets a valid response the
\* call returns, having sent one request per attempt: exactly two when the 403
\* answered the first attempt
C11_RateLimit403RetriedThenSucceeds ==
    /\ (Handled /\ IsRateLimit403(ex_last) /\ ex_attempt < max_retries)
           => ex_pc = "sleeping"
    /\ (Handled /\ IsRateLimit403(ex_prev) /\ IsValidResponse(ex_last))
           => /\ ex_pc = "returned"
              /\ ex_error = ""
              /\ ex_requests = ex_attempt
              /\ ex_sleeps = ex_attempt - 1

\* C11 witness: with max_retries 3 the first attempt got a 403 "Rate Limit"
\* message, the second a valid response, and the call returned after two
\* requests
C11_Witness ==
    /\ max_retries = 3
    /\ ex_pc = "returned"
    /\ ex_attempt = 2
    /\ ex_requests = 2
    /\ IsRateLimit403(ex_prev)
    /\ IsValidResponse(ex_last)

\* C12: a 403 with a message that does not contain "rate limit" makes
\* execute() raise GraphQLClientError with that message on that attempt: no
\* sleep for it and no request after it, whatever max_retries is
C12_Other403RaisesAtOnce ==
    (Handled /\ IsOther403(ex_last))
    => /\ ex_pc = "raised"
       /\ ex_error = "GraphQLClientError"
       /\ ex_message = ex_last.message
       /\ ex_requests = ex_attempt
       /\ ex_sleeps = ex_attempt - 1

\* C12 witness: with attempts to spare the first attempt got a 403 "Bad
\* credentials" and the call raised after one request and no sleep
C12_Witness ==
    /\ max_retries >= 2
    /\ ex_pc = "raised"
    /\ ex_requests = 1
    /\ ex_sleeps = 0
    /\ IsOther403(ex_last)
    /\ ex_message = <<"Bad credentials">>

----------------------------------------------------------------------------
(* Properties of the rate limit coordinator *)

\* ceil(a / b) for b > 0
CeilDiv(a, b) == -((-a) \div b)

\* max(1, ceil(estimated_cost)) for the estimate the coordinator holds
AcquireCost == Max(1, CeilDiv(rl_estimated, CostScale))

\* k = ceil(max(1, 0.5 * 1 + 0.5 * c)): what one call costs after a first
\* record() of cost c
FreshCost(c) == Max(1, CeilDiv(1 + c, 2))

\* task t leaves the first locked block of acquire() in this step
Tries(t) == rl_pc[t] = "top" /\ rl_pc'[t] # "top"

\* task t ends a sleep of acquire() in this step
Wakes(t) == rl_pc[t] = "sleeping" /\ rl_pc'[t] # "sleeping"

\* C13: acquire() on a snapshot with enough budget returns without sleeping
\* and takes exactly max(1, ceil(estimated_cost)) off remaining; after the
\* first record(cost = c > 0, remaining = r) of a coordinator that is
\* k = ceil(max(1, 0.5 + 0.5 c)), so that c = 30, r = 40 leaves 24
C13_AcquireConsumesEstimatedCost ==
    [][\A t \in Tasks :
          (Tries(t) /\ rl_info # NoInfo) =>
              /\ rl_info.remaining >= AcquireCost
                     => /\ rl_pc'[t] = "out"
                        /\ rl_info'.remaining = rl_info.remaining - AcquireCost
              /\ (rl_info.id = 1 /\ rl_info.cost > 0
                                 /\ rl_info.remaining >= FreshCost(rl_info.cost))
                     => /\ rl_pc'[t] = "out"
                        /\ rl_info'.remaining = rl_info.remaining - FreshCost(rl_info.cost)
              /\ rl_info = RateLimitInfo(1, 30, 40)
                     => rl_info' = RateLimitInfo(1, 30, 24)]_vars

\* C13 witness: the first record was (cost 30, remaining 40), one acquire()
\* has returned since and 24 remain
C13_Witness ==
    /\ rl_info = RateLimitInfo(1, 30, 24)
    /\ rl_granted = 16
    /\ \E t \in Tasks : rl_pc[t] = "out"

\* C14: acquire() on a snapshot with remaining below the estimated cost
\* sleeps; when the sleep ends and record() was not called meanwhile the
\* snapshot is gone and remaining() reports none; acquire() then returns at
\* once, leaving no snapshot (the optimistic probe)
C14_ExhaustedSleepsThenProbes ==
    [][\A t \in Tasks :
          /\ (Tries(t) /\ rl_info # NoInfo /\ rl_info.remaining < AcquireCost)
                 => rl_pc'[t] = "sleeping"
          /\ (Wakes(t) /\ rl_seen[t] = rl_next_id - 1)
                 => /\ rl_info' = NoInfo
                    /\ RlRemaining' = None
                    /\ rl_pc'[t] = "top"
          /\ (Tries(t) /\ rl_info = NoInfo)
                 => /\ rl_pc'[t] = "out"
                    /\ rl_info' = NoInfo]_vars

\* C14 witness: a task slept in its acquire() on the latest snapshot, no
\* record() or reset() came meanwhile, the sleep is over and the snapshot is
\* cleared
C14_Witness ==
    \E t \in Tasks :
        /\ rl_pc[t] = "top"
        /\ rl_seen[t] # 0
        /\ rl_seen[t] = rl_next_id - 1
        /\ ~rl_cleared
        /\ rl_info = NoInfo

\* C15: from a reset() to the next record() there is no snapshot, whatever
\* was stored: remaining() reports none and every acquire() returns without
\* sleeping
C15_ResetDiscardsSnapshot ==
    [][/\ rl_cleared' => (rl_info' = NoInfo /\ RlRemaining' = None)
       /\ \A t \in Tasks : (Tries(t) /\ rl_cleared) => rl_pc'[t] = "out"]_vars

\* C15 witness: a snapshot was recorded and drawn on, reset() discarded it and
\* a task is back out of acquire() while another still sleeps on it
C15_Witness ==
    /\ rl_cleared
    /\ rl_next_id > 1
    /\ rl_granted > 0
    /\ rl_info = NoInfo
    /\ \E t \in Tasks : rl_pc[t] = "out"
    /\ \E t \in Tasks : rl_pc[t] = "sleeping"

----------------------------------------------------------------------------
(* Properties of the planner's loop body *)

\* a range of less than two seconds
Unsplittable(r) == duration(r) < TwoSeconds

\* this step appended one plan for range r, with available_results at the
\* limit and requested_results min(limit, remaining target), and went on
ClampedPlanEmitted(r) ==
    /\ plan_pc' = "loop"
    /\ planned' = Append(planned, [time_range |-> r,
                                   requested_results |-> Min(search_limit, plan_remaining),
                                   available_results |-> search_limit])

\* C16: when an unsplittable range comes up with a count above search_limit
\* (popped with its known count, or counted as the initial range), the step
\* neither fails nor splits: it emits one plan for that range with
\* available_results = search_limit and requested_results = min(search_limit,
\* remaining target), and nothing is pushed or counted
C16_UnsplittableOversizeClamped ==
    [][/\ (/\ plan_pc = "loop"
           /\ stack # <<>>
           /\ stack' # stack
           /\ stack[Len(stack)].known_count # None
           /\ Unsplittable(stack[Len(stack)].time_range)
           /\ stack[Len(stack)].known_count > search_limit)
          => /\ ClampedPlanEmitted(stack[Len(stack)].time_range)
             /\ stack' = SubSeq(stack, 1, Len(stack) - 1)
             /\ reported' = reported
       /\ (/\ plan_pc = "count_current"
           /\ reported' # reported
           /\ Unsplittable(current)
           /\ ReportedCount(current)' > search_limit)
          => /\ ClampedPlanEmitted(current)
             /\ stack' = stack]_vars

\* C16 witness: plan() returned two plans of which one is for an unsplittable
\* half that reported more than the limit, planned at the limit but asked for
\* less than it, the target being nearly met
C16_Witness ==
    /\ plan_pc = "done"
    /\ Len(planned) = 2
    /\ \E i \in 1 .. Len(planned) :
          /\ Unsplittable(planned[i].time_range)
          /\ planned[i].time_range # initial_range
          /\ ReportedCount(planned[i].time_range) > search_limit
          /\ planned[i].available_results = search_limit
          /\ planned[i].requested_results < search_limit

\* C17: every plan has 1 <= requested_results <= available_results and
\* requested_results = min(available_results, N - what the earlier plans
\* request); an initial range counted c with 0 < c <= search_limit gives the
\* single plan (requested min(c, N), available c)
C17_RequestedIsMinOfAvailableAndRest ==
    /\ \A i \in 1 .. Len(planned) :
          /\ 1 <= planned[i].requested_results
          /\ planned[i].requested_results <= planned[i].available_results
          /\ planned[i].requested_results =
                 Min(planned[i].available_results,
                     total_needed - SumRequested(SubSeq(planned, 1, i - 1)))
    /\ (/\ plan_pc = "done"
        /\ total_needed > 0
        /\ 0 < ReportedCount(initial_range)
        /\ ReportedCount(initial_range) <= search_limit)
       => planned = <<[time_range |-> initial_range,
                       requested_results |-> Min(ReportedCount(initial_range), total_needed),
                       available_results |-> ReportedCount(initial_range)]>>

\* C17 witness: plan() returned for an initial range whose count is within the
\* limit and above the target: one plan asking for less than is available
C17_Witness ==
    /\ plan_pc = "done"
    /\ 0 < ReportedCount(initial_range)
    /\ ReportedCount(initial_range) <= search_limit
    /\ Len(planned) = 1
    /\ planned[1].requested_results = total_needed
    /\ planned[1].requested_results < planned[1].available_results

----------------------------------------------------------------------------
(* Properties of TimeRange.split *)

\* |x|
Abs(x) == IF x < 0 THEN -x ELSE x

\* C18: for a range [a, b) of at least two microseconds split() returns
\* ([a, m), [m, b)) with a < m < b: the halves are contiguous and cover the
\* range, both last more than nothing and their durations differ by at most
\* one microsecond
C18_SplitHalvesContiguousAndEven ==
    (plan_pc \in {"split_returned", "split_raised"} /\ current.end - current.start >= 2)
    => /\ plan_pc = "split_returned"
       /\ older.start = current.start
       /\ older.end = newer.start
       /\ newer.end = current.end
       /\ current.start < older.end
       /\ older.end < current.end
       /\ older.end - older.start > 0
       /\ newer.end - newer.start > 0
       /\ Abs((older.end - older.start) - (newer.end - newer.start)) <= 1

\* C18 witness: split() returned for a range of an odd number of microseconds
\* whose half is a tie rounded up: the older half is the longer one
C18_Witness ==
    /\ plan_pc = "split_returned"
    /\ (current.end - current.start) % 2 = 1
    /\ older.end - older.start = (newer.end - newer.start) + 1

----------------------------------------------------------------------------
(* Properties of the end of the stream *)

\* how many records were put on the queue
RECURSIVE EnqueuedOf(_)
EnqueuedOf(nodes) ==
    IF nodes = {} THEN 0
    ELSE LET n == CHOOSE x \in nodes : TRUE
         IN  enqueued[n] + EnqueuedOf(nodes \ {n})

EnqueuedTotal == EnqueuedOf(NodeIds)

\* the sentinel is on the queue only once gather() has returned, and nothing
\* is behind it; once the writer has returned the queue is empty, every record
\* enqueued was handed to upsert_repositories and `written` counts them all;
\* crawl() returns only then, so repositories_written is that count
EndOfStreamInOrder ==
    /\ \A i \in 1 .. Len(queue) :
          queue[i] = Sentinel =>
              /\ i = Len(queue)
              /\ crawl_pc \notin {"planning", "gather"}
              /\ \A p \in Producers : prod[p].pc = "done"
    /\ cons_pc = "done" =>
          /\ queue = <<>>
          /\ written = EnqueuedTotal
          /\ \A n \in NodeIds : enqueued[n] > 0 => HandedToUpsert(n)
    /\ crawl_pc = "returned" => cons_pc = "done"

\* C19: when every producer has completed the sentinel is put on the queue
\* behind every record; the writer drains everything before it and terminates
\* (crawl() returns unless an upsert failed), and CrawlResult.repositories_written
\* is the number of records that were enqueued
C19_SentinelLastWriterDrainsAll ==
    /\ []EndOfStreamInOrder
    /\ (crawl_pc = "await_consumer") ~> (crawl_pc = "returned" \/ cons_pc = "failed")

\* C19 witness: crawl() has returned after two producers completed; the one
\* record enqueued did not fill a batch, was flushed after the sentinel and is
\* counted
C19_Witness ==
    /\ crawl_pc = "returned"
    /\ Len(prod) = 2
    /\ batch_size = 2
    /\ EnqueuedTotal = 1
    /\ written = 1
    /\ \E n \in NodeIds : enqueued[n] = 1 /\ db_repositories[n] # NoRow


----------------------------------------------------------------------------
(* Properties of a failing upsert *)

\* the last upsert_repositories call raised
UpsertFailed == db_pc = "idle" /\ db_result = "raised"

\* neither table holds a committed row of record rec
NotCommitted(rec) ==
    /\ db_repositories[rec.node_id] = NoRow
    /\ db_snapshots[<<rec.node_id, rec.fetched_at>>] = 0

\* after an upsert raised crawl() has not returned a CrawlResult, the writer
\* wrote nothing more, and no row of the batch is in the committed tables
FailedBatchFatalAndRolledBack ==
    UpsertFailed =>
        /\ crawl_pc # "returned"
        /\ cons_pc \notin {"get", "done"}
        /\ \A i \in 1 .. Len(db_records) : NotCommitted(db_records[i])

\* C20: if the upsert of a batch fails crawl() ends in failure, never
\* returning a CrawlResult, and no row of the failed batch is committed
C20_UpsertFailureFatal ==
    /\ []FailedBatchFatalAndRolledBack
    /\ UpsertFailed ~> (crawl_pc = "raised")

\* C20 witness: the second batch failed after the first was committed; every
\* producer completed and crawl() raised the writer's exception
C20_Witness ==
    /\ UpsertFailed
    /\ cons_pc = "failed"
    /\ crawl_pc = "raised"
    /\ written = 1
    /\ \A p \in Producers : prod[p].pc = "done"
    /\ \E n \in NodeIds : db_repositories[n] # NoRow


----------------------------------------------------------------------------
(* Properties of the planner's traversal order *)

\* C21 as stated: after a split the older half is on top of the stack, so it
\* is popped before the newer one, and the plans come out in increasing time
\* order: each plan's range ends no later than the next one's starts
C21_OlderHalfFirstPlansAscending ==
    /\ \A i \in 1 .. Len(stack) - 1 :
          stack[i + 1].time_range.end <= stack[i].time_range.start
    /\ \A i \in 1 .. Len(planned) - 1 :
          planned[i].time_range.end <= planned[i + 1].time_range.start


----------------------------------------------------------------------------
(* Properties of the planner's count queries *)

\* the callers whose acquire() has returned and whose request is not yet sent
Acquired == {p \in Producers : prod[p].pc = "acquire" /\ rl_pc[p] = "out"}

\* C22 as stated: every request sent during a crawl, the planner's count
\* queries included, is sent by a caller whose acquire() on the coordinator
\* has returned for it
C22_EveryQueryAfterAcquire ==
    [][inflight' > inflight => \E p \in Acquired : prod'[p].pc = "execute"]_vars


----------------------------------------------------------------------------
(* Properties of the sleeps of execute() *)

\* C23 as stated: the sleep before the retry of a 403 rate-limit response
\* that carries Retry-After is min(max(backoff, Retry-After), max_backoff),
\* backoff being the backoff current when the response arrived
C23_RateLimitSleepIsMaxOfBackoffAndRetryAfter ==
    [][(/\ ex_pc = "posting"
        /\ ex_pc' = "sleeping"
        /\ IsRateLimit403(ex_last')
        /\ ex_last'.retry_after # None)
       => ex_sleep' = Min(Max(ex_backoff, ex_last'.retry_after), max_backoff)]_vars

\* C24 as stated: while every response of the call was a network error or a
\* 502/503/504, the k-th sleep is min(initial_backoff * 2^(k-1), max_backoff)
C24_TransientSleepsDoubleUpToMax ==
    (ex_pc = "sleeping" /\ ex_only_transient)
    => ex_sleep = Min(initial_backoff * 2 ^ (ex_sleeps - 1), max_backoff)


\* a response whose errors[] decide what execute() does: not a 502/503/504,
\* not a 403 with a message, errors present
ErrorsDecide(resp) ==
    /\ resp.kind = "http"
    /\ resp.status # 502
    /\ ~(resp.status = 403 /\ resp.message # NoMessage)
    /\ resp.errors # "none"

\* C25 as stated: a response carrying errors[] is retried exactly when
\* attempts remain and the errors are retryable, and when an error carries a
\* numeric retryAfter (0 included) the sleep before the retry is
\* min(retryAfter, max_backoff)
C25_ErrorsRetriedWithRetryAfterSleep ==
    [][(ex_pc = "posting" /\ ErrorsDecide(ex_last'))
       => /\ (ex_pc' = "sleeping")
                <=> (ex_attempt < max_retries /\ ex_last'.errors = "retryable")
          /\ (ex_pc' = "sleeping" /\ ex_last'.retry_after # None)
                => ex_sleep' = Min(ex_last'.retry_after, max_backoff)]_vars

\* a response with no retryable condition that carries non-retryable errors
\* or lacks the data field
IsFatalPayload(resp) ==
    /\ resp.kind = "http"
    /\ resp.status # 502
    /\ ~IsRateLimit403(resp)
    /\ \/ resp.errors = "fatal"
       \/ resp.errors = "none" /\ ~resp.has_data

\* C26: a response with no retryable condition that lacks data, or that
\* carries only non-retryable errors, makes execute() raise GraphQLClientError
\* on that attempt: no sleep for it and no request after it, whatever
\* max_retries is
C26_FatalPayloadRaisesAtOnce ==
    (Handled /\ IsFatalPayload(ex_last))
    => /\ ex_pc = "raised"
       /\ ex_error = "GraphQLClientError"
       /\ ex_requests = ex_attempt
       /\ ex_sleeps = ex_attempt - 1

\* C26 witness: with attempts to spare the first attempt got a 200 whose
\* errors are not retryable, and the call raised after one request and no sleep
C26_Witness ==
    /\ max_retries >= 2
    /\ ex_pc = "raised"
    /\ ex_requests = 1
    /\ ex_sleeps = 0
    /\ ex_last.status = 200
    /\ ex_last.errors = "fatal"
    /\ ex_last.has_data
    /\ ex_message = <<"errors">>


----------------------------------------------------------------------------
(* Properties of the planner's guard against inconsistent counts *)

\* the halves of range r were counted and together fall short of
\* min(c, search_limit)
HalvesFallShort(r, c) ==
    /\ \E rep \in reported : rep.time_range = TimeRange(r.start, midpoint(r))
    /\ \E rep \in reported : rep.time_range = TimeRange(midpoint(r), r.end)
    /\ ReportedCount(TimeRange(r.start, midpoint(r)))
         + ReportedCount(TimeRange(midpoint(r), r.end))
       < (IF c <= search_limit THEN c ELSE search_limit)

\* C27: when a splittable range has count > search_limit and its halves report
\* older_count + newer_count < min(count, search_limit), the step that gets the
\* newer count emits the parent as one plan with available_results =
\* min(count, search_limit) and pushes neither half
C27_ShortHalvesEmitParent ==
    [][(/\ plan_pc = "count_newer"
        /\ reported' # reported
        /\ duration(current) >= TwoSeconds
        /\ count > search_limit
        /\ HalvesFallShort(current, count)')
       => /\ stack' = stack
          /\ Len(planned') = Len(planned) + 1
          /\ SubSeq(planned', 1, Len(planned)) = planned
          /\ planned'[Len(planned')] =
                 [time_range |-> current,
                  requested_results |-> Min(search_limit, plan_remaining),
                  available_results |-> search_limit]
          /\ plan_remaining' = plan_remaining - Min(search_limit, plan_remaining)]_vars

\* C27 witness: plan() returned the initial range as its one plan, at the
\* limit, after counting it above the limit and its halves below the limit
\* together
C27_Witness ==
    /\ plan_pc = "done"
    /\ search_limit = 2
    /\ duration(initial_range) >= TwoSeconds
    /\ ReportedCount(initial_range) > search_limit
    /\ HalvesFallShort(initial_range, ReportedCount(initial_range))
    /\ Len(planned) = 1
    /\ planned[1].time_range = initial_range
    /\ planned[1].available_results = search_limit
    /\ stack = <<>>


----------------------------------------------------------------------------
(* Properties of concurrent acquire() calls *)

\* task t is granted out of a snapshot in this step
Granted(t) == Tries(t) /\ rl_info # NoInfo /\ rl_pc'[t] = "out"

\* C28: with several callers in acquire() against one snapshot, a grant
\* happens only when remaining >= ceil(estimated_cost) at that moment and
\* takes exactly that much; a caller that does not fit sleeps and takes
\* nothing; the amounts granted out of a snapshot never add up to more than
\* the remaining it was recorded with
C28_GrantsWithinSnapshotBudget ==
    /\ [](rl_granted <= rl_initial)
    /\ [][\A t \in Tasks :
             /\ Granted(t)
                   => /\ rl_info.remaining >= AcquireCost
                      /\ rl_granted' = rl_granted + AcquireCost
                      /\ rl_info'.remaining = rl_info.remaining - AcquireCost
             /\ (Tries(t) /\ rl_info # NoInfo /\ rl_info.remaining < AcquireCost)
                   => /\ rl_pc'[t] = "sleeping"
                      /\ rl_info' = rl_info
                      /\ rl_granted' = rl_granted]_vars

\* C28 witness: two callers were in acquire() against a snapshot recorded with
\* 1 remaining: one was granted it, the other did not fit and sleeps
C28_Witness ==
    /\ rl_info # NoInfo
    /\ rl_initial = 1
    /\ rl_granted = 1
    /\ rl_info.remaining = 0
    /\ \E t \in Tasks : rl_pc[t] = "sleeping" /\ rl_seen[t] = rl_info.id
    /\ \E t \in Tasks : rl_pc[t] = "out"


\* C29: a caller sleeps in acquire() without holding the lock, so record() can
\* install a snapshot meanwhile; when the sleep ends the caller clears the
\* snapshot only if it is still the one it read before sleeping, a snapshot
\* installed since survives, and the caller goes back to the top of the loop
\* to be judged against what is current
C29_WakeClearsOnlyOwnSnapshot ==
    [][\A t \in Tasks :
          Wakes(t)
          => /\ rl_pc'[t] = "top"
             /\ (rl_info # NoInfo /\ rl_info.id # rl_seen[t]) => rl_info' = rl_info
             /\ (rl_info # NoInfo /\ rl_info.id = rl_seen[t]) => rl_info' = NoInfo
             /\ rl_info = NoInfo => rl_info' = NoInfo]_vars

\* C29 witness: a caller slept on one snapshot, record() installed another
\* during the sleep, the sleep is over and the new snapshot is still there
C29_Witness ==
    \E t \in Tasks :
        /\ rl_pc[t] = "top"
        /\ rl_seen[t] # 0
        /\ rl_info # NoInfo
        /\ rl_info.id > rl_seen[t]
        /\ rl_granted = 0


----------------------------------------------------------------------------
(* Properties of a producer's budget *)

\* producer p gets the answer to a page in this step
GetsPage(p) == prod[p].pc = "execute" /\ prod'[p].pc \in {"loop", "done"}

\* a producer has put at most its plan's requested_results records, its
\* remaining is what is left of them, and the page it asks for is
\* min(page_size, remaining) nodes long: at least one, never more than it needs
ProducerWithinRequest ==
    \A p \in Producers :
        /\ prod[p].put <= planned[p].requested_results
        /\ prod[p].remaining = planned[p].requested_results - prod[p].put
        /\ prod[p].pc \in {"acquire", "execute"}
              => /\ prod[p].first =
                        (IF page_size <= prod[p].remaining THEN page_size
                                                           ELSE prod[p].remaining)
                 /\ 1 <= prod[p].first
                 /\ prod[p].first <= prod[p].remaining

\* C30: a producer enqueues at most plan.requested_results records, takes one
\* off its remaining for each record that was new to the seen set and put on
\* the queue (none for a duplicate), and asks for each page with
\* first = min(page_size, remaining)
C30_ProducerWithinRequest ==
    /\ []ProducerWithinRequest
    /\ [][\A p \in Producers :
             GetsPage(p)
             => /\ prod[p].remaining - prod'[p].remaining
                       = Cardinality(seen_ids' \ seen_ids)
                /\ prod[p].remaining - prod'[p].remaining = Len(queue') - Len(queue)
                /\ prod'[p].remaining >= 0]_vars

\* C30 witness: a producer that asked for a page of one node, one being all it
\* still needed under a page size of two, got a page with a duplicate and has
\* put every record of its plan but no more
C30_Witness ==
    \E p \in Producers :
        /\ prod[p].pc = "done"
        /\ page_size = 2
        /\ prod[p].first = 1
        /\ prod[p].remaining = 0
        /\ prod[p].put = planned[p].requested_results
        /\ prod[p].pages = 2
        /\ skipped # {}


----------------------------------------------------------------------------
(* Properties of a producer's paging *)

\* the `after` of the k-th request when no page is asked for twice and none
\* is skipped: none for the first, the cursor of page k - 1 after it
AfterOfRequest(k) == IF k = 1 THEN None ELSE k - 1

\* a producer's request is under way
Requesting(p) == prod[p].pc \in {"acquire", "execute"}

\* C31: a producer stops as soon as a page is empty or has hasNextPage false,
\* or its remaining has reached 0, and goes on otherwise; every request it
\* sends carries after = the endCursor of the page just received (none for
\* the first), so the pages asked for are 1, 2, 3, ... with no repeat and no
\* gap
C31_PagesInSequenceUntilStop ==
    \A p \in Producers :
        /\ \A k \in 1 .. Len(prod[p].afters) : prod[p].afters[k] = AfterOfRequest(k)
        /\ Len(prod[p].afters) = prod[p].pages + (IF Requesting(p) THEN 1 ELSE 0)
              \/ prod[p].pc \in {"failed", "cancelled"}
        /\ Requesting(p)
              => /\ prod[p].last_page \in {"none", "more"}
                 /\ prod[p].remaining > 0
        /\ prod[p].last_page \in {"empty", "final"} => prod[p].pc = "done"
        /\ (prod[p].remaining = 0 /\ ~closed) => prod[p].pc \in {"loop", "done"}
        /\ prod[p].pc = "done"
              => \/ prod[p].last_page \in {"empty", "final"}
                 \/ prod[p].remaining = 0

\* C31 witness: a producer got a first page with more to come, asked for the
\* second with the first one's cursor, and stopped on a final page while it
\* still needed records
C31_Witness ==
    \E p \in Producers :
        /\ prod[p].pc = "done"
        /\ prod[p].afters = <<None, 1>>
        /\ prod[p].pages = 2
        /\ prod[p].last_page = "final"
        /\ prod[p].remaining > 0


----------------------------------------------------------------------------
(* Properties of the writer's batches *)

\* the batches laid end to end
RECURSIVE Flatten(_)
Flatten(batches) ==
    IF batches = <<>> THEN <<>> ELSE Head(batches) \o Flatten(Tail(batches))

\* the records the writer has taken off the queue, in the order it took them:
\* those of the batches handed over, then those waiting in the buffer
Consumed ==
    Flatten(upsert_calls) \o (IF cons_pc = "get" THEN buffer ELSE <<>>)

\* every batch handed to upsert_repositories holds between 1 and batch_size
\* records, and a buffer waiting for more holds fewer than batch_size
BatchesWithinSize ==
    /\ \A k \in 1 .. Len(upsert_calls) :
          /\ Len(upsert_calls[k]) >= 1
          /\ Len(upsert_calls[k]) <= batch_size
    /\ cons_pc = "get" => Len(buffer) < batch_size

\* C32: upsert_repositories is called only with batches of 1 to batch_size
\* records; the writer hands a batch over exactly when the record it got
\* fills the buffer to batch_size or when the sentinel comes while the buffer
\* is not empty; the batch is the buffer in the order the records came off
\* the queue, and every record taken off the queue goes, once and in that
\* order, into the batches
C32_BatchesFullOrFinalInOrder ==
    /\ []BatchesWithinSize
    /\ [][(cons_pc = "get" /\ queue # <<>> /\ queue' = Tail(queue))
          => LET item == Head(queue)
                 batch == IF item = Sentinel THEN buffer ELSE buffer \o <<item>>
                 emits == \/ item # Sentinel /\ Len(buffer) + 1 >= batch_size
                          \/ item = Sentinel /\ buffer # <<>>
             IN  /\ emits => /\ upsert_calls' = upsert_calls \o <<batch>>
                             /\ db_records' = batch
                             /\ cons_pc' \in {"upsert", "final_upsert"}
                 /\ ~emits => /\ upsert_calls' = upsert_calls
                              /\ cons_pc' \in {"get", "done"}
                 /\ item # Sentinel => Consumed' = Consumed \o <<item>>
                 /\ item = Sentinel => Consumed' = Consumed]_vars

\* C32 witness: with batch_size 1 the writer has handed over two batches of
\* one record each, in the order the records were put, and is done
C32_Witness ==
    /\ batch_size = 1
    /\ cons_pc = "done"
    /\ Len(upsert_calls) = 2
    /\ upsert_calls[1] # upsert_calls[2]
    /\ written = 2


----------------------------------------------------------------------------
(* Properties of a page fetch *)

\* the producers whose execute() call is under way
Executing == {p \in Producers : prod[p].pc = "execute"}

\* C33: a page fetch takes its slot of the semaphore only once its acquire()
\* has returned; the free slots are max_concurrency less the fetches under
\* way, so a fetch that ended, failed ones included, has given its slot back;
\* and the step in which execute() fails releases the slot and leaves the
\* coordinator without a snapshot as the producer gets the error
C33_FailedFetchReleasesSlotAndSnapshot ==
    /\ [](semaphore = max_concurrency - Cardinality(Executing))
    /\ [][\A p \in Producers :
             /\ (prod[p].pc # "execute" /\ prod'[p].pc = "execute")
                   => /\ prod[p].pc = "acquire"
                      /\ rl_pc[p] = "out"
                      /\ semaphore > 0
                      /\ semaphore' = semaphore - 1
                      /\ rl_info' = rl_info
             /\ (prod[p].pc = "execute" /\ prod'[p].pc = "failed")
                   => /\ semaphore' = semaphore + 1
                      /\ rl_info' = NoInfo
                      /\ RlRemaining' = None]_vars

\* C33 witness: a fetch failed after a snapshot had been recorded: every slot
\* is free again and the snapshot is gone
C33_Witness ==
    /\ \E p \in Producers : prod[p].pc = "failed"
    /\ ~closed
    /\ Executing = {}
    /\ semaphore = max_concurrency
    /\ rl_next_id > 1
    /\ rl_cleared
    /\ rl_info = NoInfo


----------------------------------------------------------------------------
(* Termination of plan() *)

\* the ranges plan() holds: those on the stack and the one popped
RangesAtHand ==
    {stack[i].time_range : i \in 1 .. Len(stack)}
        \cup (IF plan_pc \in {"idle", "done"} THEN {} ELSE {current})

\* split() would return for every range plan() may call it on
SplittableSplits == \A r \in RangesAtHand : can_split(r) => ~SplitRaises(r)

Shorter(half, whole) == 0 < duration(half) /\ duration(half) < duration(whole)

\* C34: plan() ends, by returning or by the error of a count query, whatever
\* counts are reported; split() is called only on a range of two seconds or
\* more, for which it does not raise, its halves are strictly shorter than the
\* range, and so is every range pushed on the stack after the initial one
C34_PlanTerminatesSplitNeverRaises ==
    /\ []SplittableSplits
    /\ [][/\ (plan_pc # "count_older" /\ plan_pc' = "count_older")
                => /\ can_split(current')
                   /\ ~SplitRaises(current')
                   /\ Shorter(older', current')
                   /\ Shorter(newer', current')
          /\ (plan_pc # "idle" /\ Len(stack') > Len(stack))
                => /\ Len(stack') = Len(stack) + 2
                   /\ Shorter(stack'[Len(stack')].time_range, current)
                   /\ Shorter(stack'[Len(stack') - 1].time_range, current)
          /\ (plan_pc # "raised" /\ plan_pc' = "raised")
                => /\ plan_pc \in {"count_current", "count_older", "count_newer"}
                   /\ reported' = reported]_vars
    /\ <>(plan_pc \in {"done", "raised"})

\* C34 witness: plan() returned after every range it counted, down to the
\* one-second quarters of the initial range, reported more than the limit
C34_Witness ==
    /\ plan_pc = "done"
    /\ Cardinality(reported) = 7
    /\ \A rep \in reported : rep.count > search_limit
    /\ \E rep \in reported : ~can_split(rep.time_range)


----------------------------------------------------------------------------
(* Count queries of plan() *)

\* the range whose count query is awaiting its reply
QueryUnderWay ==
    IF plan_pc = "count_current" THEN {current}
    ELSE IF plan_pc = "count_older" THEN {older}
    ELSE IF plan_pc = "count_newer" THEN {newer}
    ELSE {}

\* C35: a range whose count query is under way has not been counted before,
\* and the query runs while the remaining target is positive; the only stack
\* entry without a count is the initial range, every other entry carries the
\* count reported for its range; no range has two reports
C35_EachRangeCountedOnceWhileNeeded ==
    /\ \A q \in QueryUnderWay : ~Counted(q) /\ plan_remaining > 0
    /\ \A i \in 1 .. Len(stack) :
          IF stack[i].known_count = None
          THEN stack[i].time_range = initial_range /\ reported = {}
          ELSE Report(stack[i].time_range, stack[i].known_count) \in reported
    /\ \A r1 \in reported : \A r2 \in reported :
          r1.time_range = r2.time_range => r1 = r2

\* C35 witness: plan() returned with the target used up and a half still on
\* the stack, after it planned a half of the initial range out of the count
\* fetched at the split: three queries in all
C35_Witness ==
    /\ plan_pc = "done"
    /\ plan_remaining = 0
    /\ stack # <<>>
    /\ Cardinality(reported) = 3
    /\ \E i \in 1 .. Len(planned) : planned[i].time_range = split(initial_range)[2]


----------------------------------------------------------------------------
(* The snapshot record() stores and the caller's object *)

\* acquire() took budget from the stored snapshot in this step
Decrements ==
    /\ rl_info # NoInfo
    /\ rl_info' # NoInfo
    /\ rl_info'.id = rl_info.id
    /\ rl_info'.remaining < rl_info.remaining

\* C36: the snapshot the coordinator holds is never the object the crawler
\* keeps; a step in which acquire() decrements the coordinator's remaining
\* leaves the crawler's object and what rate_limit_remaining reads from it
\* unchanged; so rate_limit_remaining is always the remaining of the last
\* response recorded, or None when none was
C36_RecordStoresCopy ==
    /\ []((latest_rate_limit # NoInfo /\ rl_info # NoInfo)
             => rl_info.id # latest_rate_limit.id)
    /\ [](rate_limit_remaining = IF rl_next_id = 1 THEN None ELSE rl_initial)
    /\ [][Decrements => /\ latest_rate_limit' = latest_rate_limit
                        /\ rate_limit_remaining' = rate_limit_remaining]_vars

\* C36 witness: crawl() returned after an acquire() took budget from the last
\* snapshot recorded: the coordinator holds less than the result reports
C36_Witness ==
    /\ crawl_pc = "returned"
    /\ latest_rate_limit # NoInfo
    /\ rl_info # NoInfo
    /\ rl_info.remaining < rl_initial
    /\ rate_limit_remaining = rl_initial


----------------------------------------------------------------------------
(* The target bounds what a run enqueues and writes *)

\* C37: the records put on the queue by all producers together are never
\* more than the target N, and repositories_written is never more than what
\* was put on the queue, whatever the producers' interleaving and the pages
\* the provider answers with
C37_EnqueuedAndWrittenWithinTarget ==
    /\ EnqueuedTotal <= total_needed
    /\ written <= EnqueuedTotal
    /\ written <= total_needed

\* C37 witness: crawl() returned with two producers having enqueued, and the
\* writer written, exactly N records, one of the ranges holding more results
\* than were requested of it
C37_Witness ==
    /\ crawl_pc = "returned"
    /\ Len(planned) = 2
    /\ \A p \in Producers : prod[p].put > 0
    /\ \E i \in 1 .. Len(planned) :
          planned[i].available_results > planned[i].requested_results
    /\ EnqueuedTotal = total_needed
    /\ written = total_needed

====
